---- MODULE Spec2Model ----
(***************************************************************************)
(* State-machine model of js/download.js of the KY Highway Projects        *)
(* dashboard: the three filter globals, the SQLite snapshot, the loaders   *)
(* that fill the pie chart, the year chart and the table, the panel        *)
(* titles and the map view.                                                *)
(*                                                                         *)
(* Conventions.  A JavaScript string is a TLA+ string; JavaScript null is  *)
(* the value null below.  The filter handlers receive strings (the value   *)
(* of a data-* attribute).  A table of the snapshot is a sequence of runs  *)
(* [r |-> record, n |-> k]: k consecutive rows holding the same record,    *)
(* so that a table of more than 1000 rows stays small.                     *)
(***************************************************************************)
EXTENDS Integers, Sequences, FiniteSets, TLC

VARIABLES
    currentDistrictFilter,      \* download.js:144
    currentCountyFilter,        \* download.js:145
    currentProjectTypeFilter,   \* download.js:146
    database,                   \* download.js:2325
    projectCounts,              \* download.js:135, what the pie chart shows
    projectYearsChart,          \* download.js:132, <<year, count>> bars on display
    tableRows,                  \* rows held by highwayProjectsTable
    projectsPanelTitle,         \* #projectsPanelTitle
    tableDataTitle,             \* #tableDataTitle
    mapView,                    \* what window.mainMap is fitted to
    countyLayers,               \* download.js:154, stored keys in insertion order
    districtLayers,             \* download.js:153, stored keys
    allProjectsLayer,           \* window.allProjectsLayer is set
    districtOptions,            \* data-district values of the district menu
    districtMenuLoaded,         \* menu.dataset.loaded of the district menu
    loadBtn,                    \* #loadDataBtn: text and disabled
    pendingLoads,               \* the await each loadDatabase call in flight is at
    recordCountText,            \* kind of message shown in #recordCount
    lastOp,                     \* history: the filter or menu handler that ran last, or "other"
    currentProjectsLayer,       \* download.js:149, opacity and click handler of its features
    awardedProjectsLayer,       \* download.js:150, likewise
    instructionBox,             \* .kytc-instruction-box
    apiCalls,                   \* callKYTCAPI calls suspended at an await
    alertShown,                 \* an alert() dialog is open
    resultsPopup,               \* .kytc-results-popup
    clipboard,                  \* what navigator.clipboard holds
    printWindow,                \* the document written to the print window
    server,                     \* part_004: one POST /api/update-projects request
    trace                       \* history: the steps of the handler that ran last

filters == <<currentDistrictFilter, currentCountyFilter, currentProjectTypeFilter>>
titles  == <<projectsPanelTitle, tableDataTitle>>
views   == <<projectCounts, projectYearsChart, tableRows>>
layers  == <<countyLayers, districtLayers, allProjectsLayer>>
menus   == <<districtOptions, districtMenuLoaded>>
loading == <<loadBtn, pendingLoads>>
projectLayers == <<currentProjectsLayer, awardedProjectsLayer>>
route   == <<instructionBox, apiCalls, alertShown, resultsPopup>>
output  == <<clipboard, printWindow>>
\* the state of the page
client  == <<filters, database, views, titles, mapView, layers, menus, loading,
             recordCountText, lastOp, projectLayers, route, trace, output>>
vars    == <<client, server>>

null == "<null>"

\* JavaScript truthiness of a filter value (a string or null)
Truthy(v) == v # null /\ v # ""

(***************************************************************************)
(* Bounds and fixtures                                                     *)
(***************************************************************************)
\* Basic_Project_Info holds the first k runs of AllRecords, for k = 0 (an empty
\* table), k = MaxRecords - 1 and k = MaxRecords
MaxRecords == 4

\* LIMIT of the three row queries
RowLimit == 1000

\* RSY_YEAR >= 2024 of the year fallbacks
FallbackMinYear == 2024

AllRecords == <<
    [r |-> [DISTRICT |-> "District 07", COUNTY |-> "Fayette", RSY_YEAR |-> 2024,
            TYPE_WORK |-> "BRIDGE REPLACEMENT", AWARDED |-> "2024-05-01"], n |-> 1],
    [r |-> [DISTRICT |-> "District 07", COUNTY |-> "Fayette", RSY_YEAR |-> 2023,
            TYPE_WORK |-> "UNMAPPED WORK", AWARDED |-> ""], n |-> 1],
    [r |-> [DISTRICT |-> "District 05", COUNTY |-> "Jefferson", RSY_YEAR |-> 2025,
            TYPE_WORK |-> "BRIDGE REPLACEMENT", AWARDED |-> "2025-01-15"], n |-> 1],
    [r |-> [DISTRICT |-> "District 07", COUNTY |-> "Fayette", RSY_YEAR |-> 2024,
            TYPE_WORK |-> "PAVEMENT REHAB", AWARDED |-> null], n |-> 1001],
    [r |-> [DISTRICT |-> "District 12", COUNTY |-> "Pike", RSY_YEAR |-> 2026,
            TYPE_WORK |-> "PAVEMENT REHAB", AWARDED |-> "2026-03-01"], n |-> 2],
    [r |-> [DISTRICT |-> "District 05", COUNTY |-> "Jefferson", RSY_YEAR |-> 2024,
            TYPE_WORK |-> "PAVEMENT REHAB", AWARDED |-> null], n |-> 1] >>

\* rows of the crosswalk table, in table order
Crosswalk == <<
    [raw_project_type |-> "BRIDGE REPLACEMENT", dropdown_category |-> "bridge",
     dropdown_display_name |-> "Bridge Construction"],
    [raw_project_type |-> "PAVEMENT REHAB", dropdown_category |-> "pavement",
     dropdown_display_name |-> ""] >>

BaseTables == {"Basic_Project_Info", "crosswalk"}
AggregateViews == {"ProjectsAwarded", "ProjectCount_Year",
                   "ProjectsAwarded_ByDistrict", "ProjectYears_ByDistrict",
                   "ProjectsAwarded_ByCounty", "ProjectYears_ByCounty"}
\* the snapshots differ in which views and reference tables they carry
TableConfigs == {BaseTables \cup AggregateViews \cup {"KYTC_Districts"}, BaseTables}

noDatabase == [loaded |-> FALSE, recs |-> <<>>, tables |-> {}, districtNames |-> <<>>]

\* Name column of KYTC_Districts
DistrictNames == <<"District 5", "District 7", "District 12", "District 13">>

Snapshots == {[loaded |-> TRUE, recs |-> SubSeq(AllRecords, 1, k), tables |-> t,
               districtNames |-> DistrictNames] :
                  k \in {0, MaxRecords - 1, MaxRecords}, t \in TableConfigs}

\* arguments the filter handlers are called with.  The menus that call them
\* are filled from the loaded database only (download.js:647, 955, 1053), so
\* the apply handlers run once the database is loaded; the values need not be
\* values the menus offer.
CountyInputs == {"Fayette", "Pike", "Nonexistent County"}
DistrictInputs == {"7", "12", "13"}
ProjectTypeInputs == {"bridge", "pavement", "Unknown Category"}

(***************************************************************************)
(* The snapshot: tables, views and the SQL the loaders run                 *)
(***************************************************************************)
RECURSIVE RowCount(_)
\* number of rows of a sequence of runs
RowCount(rows) == IF rows = <<>> THEN 0 ELSE Head(rows).n + RowCount(Tail(rows))

RECURSIVE Limit(_, _)
\* SQL LIMIT k: the first k rows in table order
Limit(rows, k) ==
    IF rows = <<>> \/ k <= 0 THEN <<>>
    ELSE IF Head(rows).n <= k
         THEN <<Head(rows)>> \o Limit(Tail(rows), k - Head(rows).n)
         ELSE <<[r |-> Head(rows).r, n |-> k]>>

\* SQL WHERE over the base table
Where(rows, P(_)) == SelectSeq(rows, LAMBDA e : P(e.r))

HasTable(db, name) == name \in db.tables

\* AWARDED IS NOT NULL AND AWARDED != ''
IsAwarded(r) == r.AWARDED # null /\ r.AWARDED # ""
IsCurrent(r) == r.AWARDED = null \/ r.AWARDED = ""

\* SELECT RSY_YEAR, COUNT(*) ... GROUP BY RSY_YEAR, as year |-> count
GroupByYear(rows) ==
    [y \in {rows[i].r.RSY_YEAR : i \in DOMAIN rows} |->
        RowCount(Where(rows, LAMBDA r : r.RSY_YEAR = y))]

\* the Awarded and Current columns of a pre-aggregated view over rows
AwardedCurrent(rows) ==
    [Awarded |-> RowCount(Where(rows, IsAwarded)),
     Current |-> RowCount(Where(rows, IsCurrent))]

\* SELECT * FROM ProjectsAwarded: one row
ProjectsAwardedView(db) == <<AwardedCurrent(db.recs)>>

\* SELECT * FROM ProjectsAwarded_ByDistrict WHERE DISTRICT = ?
ProjectsAwardedByDistrictView(db, district) ==
    LET m == Where(db.recs, LAMBDA r : r.DISTRICT = district)
    IN  IF m = <<>> THEN <<>> ELSE <<AwardedCurrent(m)>>

\* SELECT * FROM ProjectsAwarded_ByCounty WHERE COUNTY = ?
ProjectsAwardedByCountyView(db, county) ==
    LET m == Where(db.recs, LAMBDA r : r.COUNTY = county)
    IN  IF m = <<>> THEN <<>> ELSE <<AwardedCurrent(m)>>

\* SELECT * FROM ProjectCount_Year
ProjectCountYearView(db) == GroupByYear(db.recs)

\* SELECT * FROM ProjectYears_ByDistrict WHERE DISTRICT = ?
ProjectYearsByDistrictView(db, district) ==
    GroupByYear(Where(db.recs, LAMBDA r : r.DISTRICT = district))

\* SELECT * FROM ProjectYears_ByCounty WHERE COUNTY = ?
ProjectYearsByCountyView(db, county) ==
    GroupByYear(Where(db.recs, LAMBDA r : r.COUNTY = county))

\* crosswalk rows with dropdown_category = category, in table order
CrosswalkByCategory(category) ==
    SelectSeq(Crosswalk, LAMBDA c : c.dropdown_category = category)

\* Basic_Project_Info b LEFT JOIN crosswalk c ON b.TYPE_WORK = c.raw_project_type
\* WHERE c.dropdown_category = ?
\* the join keeping the records without a crosswalk row
JoinByCategoryOrNull(db, projectType) ==
    Where(db.recs, LAMBDA r :
        \/ \E i \in DOMAIN Crosswalk :
               /\ Crosswalk[i].raw_project_type = r.TYPE_WORK
               /\ Crosswalk[i].dropdown_category = projectType
        \/ ~\E i \in DOMAIN Crosswalk : Crosswalk[i].raw_project_type = r.TYPE_WORK)

JoinByCategory(db, projectType) ==
    Where(db.recs, LAMBDA r :
        \E i \in DOMAIN Crosswalk :
            /\ Crosswalk[i].raw_project_type = r.TYPE_WORK
            /\ Crosswalk[i].dropdown_category = projectType)

\* String.prototype.padStart(2, '0')
padStart2(s) == IF Len(s) >= 2 THEN s ELSE IF Len(s) = 1 THEN "0" \o s ELSE "00"

\* `District ${districtNumber.toString().padStart(2, '0')}`
formattedDistrict(districtNumber) == "District " \o padStart2(districtNumber)

(***************************************************************************)
(* Charts, table and titles                                                *)
(***************************************************************************)
\* a display is what the three views show: the operators below take the
\* display before a loader runs and give the display after it
Display(counts, chart, rows, rc) ==
    [projectCounts |-> counts, projectYearsChart |-> chart, tableRows |-> rows,
     recordCountText |-> rc, calls |-> <<>>]

\* a step of a handler other than a query: "filter" (the filter globals are
\* assigned), "titles" (updatePanelTitles), "zoom" (zoomToCounty,
\* zoomToDistrict or the reset of the map view), "restyle" (setStyle on the
\* project layers)
step(name) == [step |-> name, kind |-> "", value |-> ""]

\* a loader past its `if (!database) return`: the query of the counts
\* ("counts"), of the year series ("years") or of the rows ("rows"), for the
\* filter of the given kind and value
issued(d, name, kind, value) ==
    [d EXCEPT !.calls = Append(@, [step |-> name, kind |-> kind, value |-> value])]

RECURSIVE sortKeys(_)
\* Object.keys(yearData).sort(): the keys are decimal strings of equal
\* length (four-digit years), for which string order is numeric order
sortKeys(S) ==
    IF S = {} THEN <<>>
    ELSE LET m == CHOOSE x \in S : \A y \in S : x <= y
         IN  <<m>> \o sortKeys(S \ {m})

\* createProjectYearsChart drawing the bars from the last key to the first
createProjectYearsChartDescending(yearData) ==
    LET years == sortKeys(DOMAIN yearData)
    IN  IF Len(years) = 0 THEN <<>>
        ELSE [i \in 1..Len(years) |->
                 <<years[Len(years) + 1 - i], yearData[years[Len(years) + 1 - i]]>>]

\* the bars on the canvas after createProjectYearsChart(yearData)
createProjectYearsChart(yearData) ==
    LET years == sortKeys(DOMAIN yearData)
    IN  IF Len(years) = 0 THEN <<>>
        ELSE [i \in 1..Len(years) |-> <<years[i], yearData[years[i]]>>]

\* if (year && count !== undefined) yearData[year] = count
yearDataOf(rows) == [y \in {x \in DOMAIN rows : x # 0} |-> rows[y]]

\* Number.prototype.toLocaleString() for 0 <= n < 1000000
toLocaleString(n) ==
    IF n < 1000 THEN ToString(n)
    ELSE LET lo == n % 1000
         IN  ToString(n \div 1000) \o "," \o
             (IF lo < 10 THEN "00" ELSE IF lo < 100 THEN "0" ELSE "") \o ToString(lo)

\* recordCount.textContent = `Showing ${count.toLocaleString()} records`
updateTableRecordCount(count) == "Showing " \o toLocaleString(count) \o " records"

\* row.Awarded || row.awarded || 0 and row.Current || row.current || 0
countsOfRow(row) == [awarded |-> row.Awarded, current |-> row.Current]

\* loadProjectsAwardedData adding the row of the view to the counts on display
\* (+= for =)
loadProjectsAwardedDataAdding(db, d0) ==
    IF ~db.loaded THEN d0
    ELSE LET d == issued(d0, "counts", "none", null) IN
    IF HasTable(db, "ProjectsAwarded")
    THEN LET rows == ProjectsAwardedView(db)
         IN  IF rows # <<>>
             THEN [d EXCEPT !.projectCounts =
                      [awarded |-> d.projectCounts.awarded + rows[1].Awarded,
                       current |-> d.projectCounts.current + rows[1].Current]]
             ELSE d
    ELSE IF HasTable(db, "Basic_Project_Info")
    THEN [d EXCEPT !.projectCounts =
             [awarded |-> d.projectCounts.awarded,
              current |-> d.projectCounts.current + RowCount(db.recs)]]
    ELSE d

loadProjectsAwardedData(db, d0) ==
    IF ~db.loaded THEN d0
    ELSE LET d == issued(d0, "counts", "none", null) IN
    IF HasTable(db, "ProjectsAwarded")
    THEN LET rows == ProjectsAwardedView(db)
         IN  IF rows # <<>> THEN [d EXCEPT !.projectCounts = countsOfRow(rows[1])]
             ELSE d
    ELSE IF HasTable(db, "Basic_Project_Info")
    THEN [d EXCEPT !.projectCounts = [awarded |-> 0, current |-> RowCount(db.recs)]]
    ELSE d

loadProjectCountByYear(db, d0) ==
    IF ~db.loaded THEN d0
    ELSE LET d == issued(d0, "years", "none", null) IN
    IF HasTable(db, "ProjectCount_Year")
    THEN LET rows == ProjectCountYearView(db)
             yearData == yearDataOf(rows)
         IN  IF DOMAIN rows = {} THEN d
             ELSE IF DOMAIN yearData # {}
                  THEN [d EXCEPT !.projectYearsChart = createProjectYearsChart(yearData)]
                  ELSE d
    ELSE IF HasTable(db, "Basic_Project_Info")
    THEN LET yearData == GroupByYear(Where(db.recs,
                             LAMBDA r : r.RSY_YEAR >= FallbackMinYear))
         IN  IF DOMAIN yearData # {}
             THEN [d EXCEPT !.projectYearsChart = createProjectYearsChart(yearData)]
             ELSE d
    ELSE d

loadBasicProjectInfo(db, d0) ==
    IF ~db.loaded THEN d0
    ELSE LET d == issued(d0, "rows", "none", null) IN
    IF ~HasTable(db, "Basic_Project_Info")
    THEN [d EXCEPT !.recordCountText = "Error: no such table"]
    ELSE LET rows == Limit(db.recs, RowLimit)
         IN  IF rows = <<>>
             THEN [d EXCEPT !.recordCountText = updateTableRecordCount(0)]
             ELSE [loadProjectsAwardedData(db, loadProjectCountByYear(db, d))
                     EXCEPT !.tableRows = rows,
                            !.recordCountText = updateTableRecordCount(RowCount(rows))]

loadFilteredProjectsAwardedData(db, districtNumber, d0) ==
    IF ~db.loaded THEN d0
    ELSE LET d == issued(d0, "counts", "district", districtNumber) IN
    IF HasTable(db, "ProjectsAwarded_ByDistrict")
    THEN LET rows == ProjectsAwardedByDistrictView(db, formattedDistrict(districtNumber))
         IN  IF rows # <<>> THEN [d EXCEPT !.projectCounts = countsOfRow(rows[1])]
             ELSE [d EXCEPT !.projectCounts = [awarded |-> 0, current |-> 0]]
    ELSE d

loadFilteredProjectCountByYear(db, districtNumber, d0) ==
    IF ~db.loaded THEN d0
    ELSE LET d == issued(d0, "years", "district", districtNumber) IN
    IF HasTable(db, "ProjectYears_ByDistrict") \/ HasTable(db, "Basic_Project_Info")
    THEN LET district == formattedDistrict(districtNumber)
             rows == IF HasTable(db, "ProjectYears_ByDistrict")
                     THEN ProjectYearsByDistrictView(db, district)
                     ELSE GroupByYear(Where(db.recs, LAMBDA r :
                              r.DISTRICT = district /\ r.RSY_YEAR >= FallbackMinYear))
             yearData == yearDataOf(rows)
         IN  IF DOMAIN yearData # {}
             THEN [d EXCEPT !.projectYearsChart = createProjectYearsChart(yearData)]
             ELSE [d EXCEPT !.projectYearsChart = createProjectYearsChart(<<>>)]
    ELSE d

\* highwayProjectsTable.setData(rows), whose dataLoaded callback updates the count
setData(rows, d) ==
    [d EXCEPT !.tableRows = rows,
              !.recordCountText = updateTableRecordCount(RowCount(rows))]

loadFilteredBasicProjectInfo(db, districtNumber, d0) ==
    IF ~db.loaded THEN d0
    ELSE LET d == issued(d0, "rows", "district", districtNumber) IN
    IF ~HasTable(db, "Basic_Project_Info")
    THEN [d EXCEPT !.recordCountText = "Error loading filtered data: no such table"]
    ELSE LET district == formattedDistrict(districtNumber)
             rows == Limit(Where(db.recs, LAMBDA r : r.DISTRICT = district), RowLimit)
         IN  IF rows = <<>> THEN setData(<<>>, d) ELSE setData(rows, d)

loadFilteredProjectsAwardedDataByCounty(db, countyName, d0) ==
    IF ~db.loaded THEN d0
    ELSE LET d == issued(d0, "counts", "county", countyName) IN
    IF HasTable(db, "ProjectsAwarded_ByCounty")
    THEN LET rows == ProjectsAwardedByCountyView(db, countyName)
         IN  IF rows # <<>> THEN [d EXCEPT !.projectCounts = countsOfRow(rows[1])]
             ELSE [d EXCEPT !.projectCounts = [awarded |-> 0, current |-> 0]]
    ELSE IF HasTable(db, "Basic_Project_Info")
    THEN [d EXCEPT !.projectCounts = countsOfRow(AwardedCurrent(
                       Where(db.recs, LAMBDA r : r.COUNTY = countyName)))]
    ELSE d

loadFilteredProjectCountByYearByCounty(db, countyName, d0) ==
    IF ~db.loaded THEN d0
    ELSE LET d == issued(d0, "years", "county", countyName) IN
    IF HasTable(db, "ProjectYears_ByCounty") \/ HasTable(db, "Basic_Project_Info")
    THEN LET rows == IF HasTable(db, "ProjectYears_ByCounty")
                     THEN ProjectYearsByCountyView(db, countyName)
                     ELSE GroupByYear(Where(db.recs, LAMBDA r :
                              r.COUNTY = countyName /\ r.RSY_YEAR >= FallbackMinYear))
             yearData == yearDataOf(rows)
         IN  IF DOMAIN yearData # {}
             THEN [d EXCEPT !.projectYearsChart = createProjectYearsChart(yearData)]
             ELSE [d EXCEPT !.projectYearsChart = createProjectYearsChart(<<>>)]
    ELSE d

loadFilteredBasicProjectInfoByCounty(db, countyName, d0) ==
    IF ~db.loaded THEN d0
    ELSE LET d == issued(d0, "rows", "county", countyName) IN
    IF ~HasTable(db, "Basic_Project_Info")
    THEN [d EXCEPT !.recordCountText = "Error loading filtered county data: no such table"]
    ELSE LET rows == Limit(Where(db.recs, LAMBDA r : r.COUNTY = countyName), RowLimit)
         IN  IF rows = <<>> THEN setData(<<>>, d) ELSE setData(rows, d)

\* the CASE of the query labels every row that passes its WHERE 'Awarded'
loadFilteredProjectsAwardedDataByProjectType(db, projectType, d0) ==
    IF ~db.loaded THEN d0
    ELSE LET d == issued(d0, "counts", "projectType", projectType) IN
    IF HasTable(db, "Basic_Project_Info") /\ HasTable(db, "crosswalk")
    THEN LET m == JoinByCategory(db, projectType)
         IN  [d EXCEPT !.projectCounts =
                 [awarded |-> IF m = <<>> THEN 0 ELSE RowCount(m), current |-> 0]]
    ELSE d

\* loadFilteredProjectCountByYearByProjectType redrawing the chart only when
\* the query returned a year, as loadProjectCountByYear does
loadFilteredProjectCountByYearByProjectTypeKeeping(db, projectType, d0) ==
    IF ~db.loaded THEN d0
    ELSE LET d == issued(d0, "years", "projectType", projectType) IN
    IF HasTable(db, "Basic_Project_Info") /\ HasTable(db, "crosswalk")
    THEN LET yearData == yearDataOf(GroupByYear(JoinByCategory(db, projectType)))
         IN  IF DOMAIN yearData # {}
             THEN [d EXCEPT !.projectYearsChart = createProjectYearsChart(yearData)]
             ELSE d
    ELSE d

loadFilteredProjectCountByYearByProjectType(db, projectType, d0) ==
    IF ~db.loaded THEN d0
    ELSE LET d == issued(d0, "years", "projectType", projectType) IN
    IF HasTable(db, "Basic_Project_Info") /\ HasTable(db, "crosswalk")
    THEN LET yearData == yearDataOf(GroupByYear(JoinByCategory(db, projectType)))
         IN  [d EXCEPT !.projectYearsChart = createProjectYearsChart(yearData)]
    ELSE d

\* loadFilteredBasicProjectInfoByProjectType with a query without LIMIT
loadFilteredBasicProjectInfoByProjectTypeUnbounded(db, projectType, d0) ==
    IF ~db.loaded THEN d0
    ELSE LET d == issued(d0, "rows", "projectType", projectType) IN
    IF ~(HasTable(db, "Basic_Project_Info") /\ HasTable(db, "crosswalk"))
    THEN [d EXCEPT !.recordCountText =
              "Error loading filtered project type data: no such table"]
    ELSE LET rows == JoinByCategory(db, projectType)
         IN  IF rows = <<>> THEN setData(<<>>, d) ELSE setData(rows, d)

loadFilteredBasicProjectInfoByProjectType(db, projectType, d0) ==
    IF ~db.loaded THEN d0
    ELSE LET d == issued(d0, "rows", "projectType", projectType) IN
    IF ~(HasTable(db, "Basic_Project_Info") /\ HasTable(db, "crosswalk"))
    THEN [d EXCEPT !.recordCountText =
              "Error loading filtered project type data: no such table"]
    ELSE LET rows == Limit(JoinByCategory(db, projectType), RowLimit)
         IN  IF rows = <<>> THEN setData(<<>>, d) ELSE setData(rows, d)

\* the display after updateChartsAndTable() under filters dF, cF, pF
updateChartsAndTable(db, dF, cF, pF, d) ==
    IF Truthy(pF)
    THEN loadFilteredBasicProjectInfoByProjectType(db, pF,
             loadFilteredProjectCountByYearByProjectType(db, pF,
                 loadFilteredProjectsAwardedDataByProjectType(db, pF, d)))
    ELSE IF Truthy(dF)
    THEN loadFilteredBasicProjectInfo(db, dF,
             loadFilteredProjectCountByYear(db, dF,
                 loadFilteredProjectsAwardedData(db, dF, d)))
    ELSE IF Truthy(cF)
    THEN loadFilteredBasicProjectInfoByCounty(db, cF,
             loadFilteredProjectCountByYearByCounty(db, cF,
                 loadFilteredProjectsAwardedDataByCounty(db, cF, d)))
    ELSE loadBasicProjectInfo(db, loadProjectCountByYear(db,
             loadProjectsAwardedData(db, d)))

getProjectTypeDisplayName(db, category) ==
    IF ~db.loaded \/ ~Truthy(category) THEN category
    ELSE IF ~HasTable(db, "crosswalk") THEN category
    ELSE LET rows == CrosswalkByCategory(category)
         IN  IF rows # <<>>
             THEN IF rows[1].dropdown_display_name # ""
                  THEN rows[1].dropdown_display_name ELSE category
             ELSE category

\* updatePanelTitles putting the county suffix before the district suffix
updatePanelTitlesCountyFirst(db, dF, cF, pF) ==
    LET districtSuffix == IF Truthy(dF) THEN " in District " \o dF ELSE ""
        countySuffix == IF Truthy(cF) THEN " in " \o cF \o " County" ELSE ""
        projectsTitleSuffix == countySuffix \o districtSuffix
        tableTitleSuffix ==
            projectsTitleSuffix \o
            (IF Truthy(pF) THEN " (" \o getProjectTypeDisplayName(db, pF) \o ")" ELSE "")
    IN  << IF projectsTitleSuffix # "" THEN "Projects" \o projectsTitleSuffix
           ELSE "Projects",
           IF tableTitleSuffix # "" THEN "Highway Projects Data" \o tableTitleSuffix
           ELSE "Highway Projects Data" >>

\* <<text of #projectsPanelTitle, text of #tableDataTitle>>
updatePanelTitles(db, dF, cF, pF) ==
    LET districtSuffix == IF Truthy(dF) THEN " in District " \o dF ELSE ""
        countySuffix == IF Truthy(cF) THEN " in " \o cF \o " County" ELSE ""
        projectsTitleSuffix == districtSuffix \o countySuffix
        tableTitleSuffix ==
            projectsTitleSuffix \o
            (IF Truthy(pF) THEN " (" \o getProjectTypeDisplayName(db, pF) \o ")" ELSE "")
    IN  << IF projectsTitleSuffix # "" THEN "Projects" \o projectsTitleSuffix
           ELSE "Projects",
           IF tableTitleSuffix # "" THEN "Highway Projects Data" \o tableTitleSuffix
           ELSE "Highway Projects Data" >>

(***************************************************************************)
(* Map: stored layer keys and the zoom lookups                             *)
(***************************************************************************)
\* COUNTY / NAME values of KY_Counties.geojson, in file order
CountyFeatureNames == <<"FAYETTE", "Jefferson", "Pike County">>

\* COUNTY / NAME values a KY_Counties.geojson may carry
StoredKeyPool == {"Fayette", "FAYETTE", "fayette", "Lafayette", "Fayette County",
                  "Jefferson", "Pike County"}

\* county names the lookups are tried with
LookupInputs == {"Fayette", "FAYETTE", "fayette", "Pike", "Nonexistent County"}

\* a file carries at most MaxStoredKeys distinct county names
MaxStoredKeys == 3

\* callKYTCAPI calls in flight at once (the button can be clicked again)
MaxApiCalls == 2

\* Object.keys(countyGroups): distinct names in order of first occurrence
StoredKeySeqs ==
    {q \in UNION {[1..n -> StoredKeyPool] : n \in 1..MaxStoredKeys} :
        \A i, j \in DOMAIN q : i # j => q[i] # q[j]}

\* DISTNBR values of KYTC_Districts.geojson, as object keys
DistrictFeatureKeys == {"5", "7", "12"}

LowerCaseLetters == "abcdefghijklmnopqrstuvwxyz"
UpperCaseLetters == "ABCDEFGHIJKLMNOPQRSTUVWXYZ"

\* String.prototype.charAt, 1-based
charAt(s, i) == SubSeq(s, i, i)

\* String.prototype.slice(i) for the 0-based index i
slice(s, i) == SubSeq(s, i + 1, Len(s))

\* the letter of alphabet `to` at the place c has in alphabet `from`, or c
mapChar(c, from, to) ==
    IF \E i \in 1..26 : charAt(from, i) = c
    THEN charAt(to, CHOOSE i \in 1..26 : charAt(from, i) = c)
    ELSE c

RECURSIVE toUpperCaseOf(_)
\* String.prototype.toUpperCase (ASCII letters), letter by letter
toUpperCaseOf(s) ==
    IF Len(s) = 0 THEN ""
    ELSE mapChar(charAt(s, 1), LowerCaseLetters, UpperCaseLetters)
             \o toUpperCaseOf(slice(s, 1))

RECURSIVE toLowerCaseOf(_)
\* String.prototype.toLowerCase (ASCII letters), letter by letter
toLowerCaseOf(s) ==
    IF Len(s) = 0 THEN ""
    ELSE mapChar(charAt(s, 1), UpperCaseLetters, LowerCaseLetters)
             \o toLowerCaseOf(slice(s, 1))

\* the county names the lookups of the model meet: handler arguments and
\* stored keys
CountyStrings == CountyInputs \cup LookupInputs \cup StoredKeyPool

\* the case conversions of the county names, computed once
CaseTable ==
    [s \in CountyStrings |->
        [upper |-> toUpperCaseOf(s),
         lower |-> toLowerCaseOf(s),
         title |-> toUpperCaseOf(charAt(s, 1)) \o toLowerCaseOf(slice(s, 1))]]

\* countyName.toUpperCase()
toUpperCase(s) == CaseTable[s].upper

\* countyName.toLowerCase(), key.toLowerCase()
toLowerCase(s) == CaseTable[s].lower

\* countyName.charAt(0).toUpperCase() + countyName.slice(1).toLowerCase()
titleCase(s) == CaseTable[s].title

\* String.prototype.includes: b occurs in a
includes(a, b) ==
    \E i \in 1..(Len(a) - Len(b) + 1) : SubSeq(a, i, i + Len(b) - 1) = b

InSeq(x, seq) == \E i \in DOMAIN seq : seq[i] = x

\* zoomToCounty trying the upper-case spelling before the exact one
zoomToCountyUpperFirst(countyName, keys, view) ==
    LET exactMatch == InSeq(countyName, keys)
        upperMatch == InSeq(toUpperCase(countyName), keys)
        lowerMatch == InSeq(toLowerCase(countyName), keys)
        titleMatch == InSeq(titleCase(countyName), keys)
        partialMatches == SelectSeq(keys, LAMBDA key :
            \/ includes(toLowerCase(key), toLowerCase(countyName))
            \/ includes(toLowerCase(countyName), toLowerCase(key)))
    IN  IF upperMatch THEN "county:" \o toUpperCase(countyName)
        ELSE IF exactMatch THEN "county:" \o countyName
        ELSE IF lowerMatch THEN "county:" \o toLowerCase(countyName)
        ELSE IF titleMatch THEN "county:" \o titleCase(countyName)
        ELSE IF Len(partialMatches) > 0 THEN "county:" \o partialMatches[1]
        ELSE view

\* zoomToCounty without its title-case tier
zoomToCountyNoTitleTier(countyName, keys, view) ==
    LET exactMatch == InSeq(countyName, keys)
        upperMatch == InSeq(toUpperCase(countyName), keys)
        lowerMatch == InSeq(toLowerCase(countyName), keys)
        partialMatches == SelectSeq(keys, LAMBDA key :
            \/ includes(toLowerCase(key), toLowerCase(countyName))
            \/ includes(toLowerCase(countyName), toLowerCase(key)))
    IN  IF exactMatch THEN "county:" \o countyName
        ELSE IF upperMatch THEN "county:" \o toUpperCase(countyName)
        ELSE IF lowerMatch THEN "county:" \o toLowerCase(countyName)
        ELSE IF Len(partialMatches) > 0 THEN "county:" \o partialMatches[1]
        ELSE view

\* the map view after zoomToCounty(countyName)
zoomToCounty(countyName, keys, view) ==
    LET exactMatch == InSeq(countyName, keys)
        upperMatch == InSeq(toUpperCase(countyName), keys)
        lowerMatch == InSeq(toLowerCase(countyName), keys)
        titleMatch == InSeq(titleCase(countyName), keys)
        partialMatches == SelectSeq(keys, LAMBDA key :
            \/ includes(toLowerCase(key), toLowerCase(countyName))
            \/ includes(toLowerCase(countyName), toLowerCase(key)))
    IN  IF exactMatch THEN "county:" \o countyName
        ELSE IF upperMatch THEN "county:" \o toUpperCase(countyName)
        ELSE IF lowerMatch THEN "county:" \o toLowerCase(countyName)
        ELSE IF titleMatch THEN "county:" \o titleCase(countyName)
        ELSE IF Len(partialMatches) > 0 THEN "county:" \o partialMatches[1]
        ELSE view

\* parseInt(districtNumber) as an object key
parseIntKey(s) ==
    CASE s \in {"0", "5", "7", "12", "13"} -> s
      [] s \in {"District 05", "District 07", "District 12"} -> "NaN"

\* the map view after zoomToDistrict(districtNumber)
zoomToDistrict(districtNumber, keys, view) ==
    LET numKey == parseIntKey(districtNumber)
        strKey == districtNumber
    IN  IF numKey \in keys THEN "district:" \o numKey
        ELSE IF strKey \in keys THEN "district:" \o strKey
        ELSE view

\* window.mainMap.setView([37.8, -85.0], 7), then fitBounds of all projects
resetMapView(haveAllProjects) == IF haveAllProjects THEN "allProjects" ELSE "Kentucky"

(***************************************************************************)
(* District menu                                                           *)
(***************************************************************************)
\* districtValue.toString().match(/(\d+)/) then parseInt, on the names of
\* KYTC_Districts
districtNumOf(name) ==
    CASE name = "District 5" -> 5
      [] name = "District 7" -> 7
      [] name = "District 12" -> 12
      [] name = "District 13" -> 13

\* the data-district values loadDistrictOptions puts in the menu
districtOptionsOf(db) ==
    IF ~db.loaded THEN {}
    ELSE IF HasTable(db, "KYTC_Districts")
    THEN {ToString(districtNumOf(db.districtNames[i])) :
             i \in {j \in DOMAIN db.districtNames :
                       /\ districtNumOf(db.districtNames[j]) >= 1
                       /\ districtNumOf(db.districtNames[j]) <= 12}}
    ELSE IF HasTable(db, "Basic_Project_Info")
    THEN {db.recs[i].r.DISTRICT :
             i \in {j \in DOMAIN db.recs : Truthy(db.recs[j].r.DISTRICT)}}
    ELSE {}

(***************************************************************************)
(* Project layers and the route lookup                                     *)
(***************************************************************************)
\* a property absent from feature.properties
undefined == "<undefined>"

\* feature.properties of the features of data/Current_Highway_Plans.geojson
CurrentFeatures == <<
    [TYPEWORK |-> "PAVEMENT REHAB", RT_NE_UNIQUE |-> "034-US-0027 -000",
     BMP |-> "1.5", EMP |-> "2.5"],
    [TYPEWORK |-> "UNMAPPED WORK", RT_NE_UNIQUE |-> undefined,
     BMP |-> "0", EMP |-> "1"],
    [TYPEWORK |-> "PAVEMENT REHAB", RT_NE_UNIQUE |-> "034-US-0027 -000",
     BMP |-> null, EMP |-> "4"] >>

\* feature.properties of the features of data/Awarded_Highway_Plans.geojson
AwardedFeatures == <<
    [TYPEWORK |-> "BRIDGE REPLACEMENT", RT_NE_UNIQUE |-> "098-KY-0080 -000",
     BMP |-> "0", EMP |-> "3"],
    [TYPEWORK |-> undefined, RT_NE_UNIQUE |-> "098-KY-0080 -000",
     BMP |-> "3", EMP |-> undefined] >>

\* a project layer global: null before the layer file has loaded
noLayer == [loaded |-> FALSE, opacity |-> <<>>, click |-> "none"]

\* L.geoJSON(data, {style, onEachFeature}): every feature drawn with
\* opacity 0.8 and bound to its popup
addedLayer(features) ==
    [loaded |-> TRUE, opacity |-> [i \in DOMAIN features |-> "0.8"], click |-> "popup"]

\* a match on the raw work type itself, without the crosswalk
checkProjectTypeMatchRaw(db, projectProps, selectedType) ==
    db.loaded /\ projectProps.TYPEWORK = selectedType

checkProjectTypeMatch(db, projectProps, selectedType) ==
    IF ~db.loaded THEN FALSE
    ELSE LET rawProjectType == IF projectProps.TYPEWORK = undefined
                               THEN "" ELSE projectProps.TYPEWORK
         IN  IF rawProjectType = "" THEN FALSE
             ELSE IF ~HasTable(db, "crosswalk") THEN FALSE
             ELSE LET rows == SelectSeq(Crosswalk,
                                  LAMBDA c : c.raw_project_type = rawProjectType)
                  IN  IF rows # <<>> THEN rows[1].dropdown_category = selectedType
                      ELSE FALSE

\* applyProjectTypeFilter: eachLayer(... setStyle ...) on a layer global
filterLayer(db, layer, features, projectType) ==
    IF ~layer.loaded THEN layer
    ELSE [layer EXCEPT !.opacity =
             [i \in DOMAIN features |->
                 IF checkProjectTypeMatch(db, features[i], projectType)
                 THEN "0.8" ELSE "0.3"]]

\* clearProjectTypeFilter, clearAllFilters: eachLayer(... setStyle ...)
resetLayer(layer) ==
    IF ~layer.loaded THEN layer
    ELSE [layer EXCEPT !.opacity = [i \in DOMAIN @ |-> "0.8"]]

\* enableProjectLineSelection: off('click'), on('click', selection handler)
selectable(layer) == IF ~layer.loaded THEN layer ELSE [layer EXCEPT !.click = "selection"]

\* restoreOriginalClickHandlers: off('click')
unclickable(layer) == IF ~layer.loaded THEN layer ELSE [layer EXCEPT !.click = "none"]

noInstructionBox == [state |-> "none", rtNeUnique |-> "", bmp |-> "", emp |-> ""]

showKYTCInstructions == [noInstructionBox EXCEPT !.state = "prompt"]

updateKYTCInstructionsWithValues(box, rtNeUnique, bmp, emp) ==
    IF box.state = "none" THEN box
    ELSE IF rtNeUnique = undefined \/ rtNeUnique = null \/ rtNeUnique = ""
            \/ bmp = undefined \/ emp = undefined
    THEN [noInstructionBox EXCEPT !.state = "missing"]
    ELSE [state |-> "selected", rtNeUnique |-> rtNeUnique, bmp |-> bmp, emp |-> emp]

\* records of Route_Info in a response of the route service
RouteRecords == <<
    [County_Name |-> "Fayette", Route |-> "US-27",
     Bridge_Identifier |-> <<"034B00012N", "">>],
    [County_Name |-> "", Route |-> "US-27",
     Bridge_Identifier |-> <<"034B00077N", "034B00012N">>] >>

\* parsed response bodies: Route_Info absent or not an array, empty, or
\* holding records
ApiResponses ==
    {[isArray |-> FALSE, Route_Info |-> <<>>]} \cup
    {[isArray |-> TRUE, Route_Info |-> SubSeq(RouteRecords, 1, k)] :
        k \in 0..Len(RouteRecords)}

\* x || 'N/A'
orNA(x) == IF x = "" \/ x = undefined \/ x = null THEN "N/A" ELSE x

RECURSIVE pushNew(_, _)
\* bridges after pushing each identifier of ids that is non-empty and new
pushNew(bridges, ids) ==
    IF ids = <<>> THEN bridges
    ELSE LET bridge == Head(ids)
         IN  pushNew(IF bridge # "" /\ ~\E i \in DOMAIN bridges : bridges[i] = bridge
                     THEN Append(bridges, bridge) ELSE bridges,
                     Tail(ids))

RECURSIVE bridgesOf(_, _)
\* the bridges collected from all records, starting from bridges
bridgesOf(bridges, records) ==
    IF records = <<>> THEN bridges
    ELSE bridgesOf(pushNew(bridges, Head(records).Bridge_Identifier), Tail(records))

\* a response without Route_Info
noData == [isArray |-> FALSE, Route_Info |-> <<>>]

\* `data` is the response the copy and print buttons of the popup close over
noPopup == [shown |-> FALSE, noInfo |-> FALSE, county |-> "", route |-> "",
            bridges |-> <<>>, segments |-> 0, data |-> noData]

\* the popup showKYTCResults(data) builds and appends
showKYTCResults(data) ==
    IF data.isArray /\ Len(data.Route_Info) > 0
    THEN LET routeInfo == data.Route_Info[1]
         IN  [shown |-> TRUE, noInfo |-> FALSE,
              county |-> orNA(routeInfo.County_Name),
              route |-> orNA(routeInfo.Route),
              bridges |-> bridgesOf(<<>>, data.Route_Info),
              segments |-> Len(data.Route_Info),
              data |-> data]
    ELSE [noPopup EXCEPT !.shown = TRUE, !.noInfo = TRUE, !.data = data]

\* nothing copied, nothing printed
noSummary == [written |-> FALSE, county |-> "", route |-> "", bridges |-> <<>>,
              segments |-> 0]

\* !data || !data.Route_Info || !Array.isArray(...) || length === 0
noRouteInfo(data) == ~data.isArray \/ Len(data.Route_Info) = 0

\* copyRouteInformation listing the bridges of the first record only
copyRouteInformationFirstRecord(data) ==
    LET routeInfo == data.Route_Info[1]
    IN  [written |-> TRUE,
         county |-> orNA(routeInfo.County_Name),
         route |-> orNA(routeInfo.Route),
         bridges |-> pushNew(<<>>, routeInfo.Bridge_Identifier),
         segments |-> Len(data.Route_Info)]

\* the text copyRouteInformation(data) hands to navigator.clipboard.writeText
copyRouteInformation(data) ==
    LET routeInfo == data.Route_Info[1]
    IN  [written |-> TRUE,
         county |-> orNA(routeInfo.County_Name),
         route |-> orNA(routeInfo.Route),
         bridges |-> bridgesOf(<<>>, data.Route_Info),
         segments |-> Len(data.Route_Info)]

\* the document printRouteInformation(data) writes to the print window
printRouteInformation(data) ==
    LET routeInfo == data.Route_Info[1]
    IN  [written |-> TRUE,
         county |-> orNA(routeInfo.County_Name),
         route |-> orNA(routeInfo.Route),
         bridges |-> bridgesOf(<<>>, data.Route_Info),
         segments |-> Len(data.Route_Info)]

(***************************************************************************)
(* The update endpoint of the server (src/unnamed/part_004)                *)
(***************************************************************************)
\* rows the CSV file holds at most
MaxCsvRows == 3

\* no request received: `opened` is the state of the sqlite3 handle,
\* `truncated` that DELETE FROM projects has run, `ended` that the CSV stream
\* has emitted 'end', `inserts` the state of the INSERT of each row read,
\* `responded` the flag of the handler, `responses` the bodies sent with
\* res.json, `crashed` that the process has exited
noRequest ==
    [phase |-> "idle", opened |-> "none", truncated |-> FALSE, ended |-> FALSE,
     inserts |-> <<>>, responded |-> FALSE, responses |-> <<>>, crashed |-> FALSE]

\* res.json sent whether or not a response has been sent
respondUnguarded(s, body) ==
    [s EXCEPT !.responded = TRUE, !.responses = Append(@, body)]

\* if (!responded) { responded = true; res.json(body); }
respond(s, body) ==
    IF ~s.responded
    THEN [s EXCEPT !.responded = TRUE, !.responses = Append(@, body)]
    ELSE s

\* the catch block: it sends without setting the flag
catchBlock(s) ==
    [(IF ~s.responded THEN [s EXCEPT !.responses = Append(@, "error")] ELSE s)
        EXCEPT !.phase = "done"]

\* the handler after await Promise.all(insertPromises) has resolved
afterInserts(s) == [respond(s, "success") EXCEPT !.phase = "done"]

\* await Promise.all(insertPromises)
awaitAll(s) ==
    IF \E i \in DOMAIN s.inserts : s.inserts[i] = "failed" THEN catchBlock(s)
    ELSE IF \A i \in DOMAIN s.inserts : s.inserts[i] = "ok" THEN afterInserts(s)
    ELSE [s EXCEPT !.phase = "awaitInserts"]

(***************************************************************************)
(* Handlers                                                                *)
(***************************************************************************)
\* the display before a handler runs
cur == Display(projectCounts, projectYearsChart, tableRows, recordCountText)

\* the steps of the county and district handlers before their loaders
zoomSteps == <<"filter", "titles", "zoom">>
\* the steps of the project-type handlers before updateChartsAndTable
restyleSteps == <<"filter", "titles", "restyle">>
\* the steps of clearAllFilters before its loaders
resetSteps == <<"filter", "titles", "zoom", "restyle">>

\* the display of a handler that has performed the named steps and is about
\* to call its loaders
after(names) == [cur EXCEPT !.calls = [i \in DOMAIN names |-> step(names[i])]]

Show(d) ==
    /\ projectCounts' = d.projectCounts
    /\ projectYearsChart' = d.projectYearsChart
    /\ tableRows' = d.tableRows
    /\ recordCountText' = d.recordCountText
    /\ trace' = d.calls

SetTitles(t) ==
    /\ projectsPanelTitle' = t[1]
    /\ tableDataTitle' = t[2]

Init ==
    /\ currentDistrictFilter = null
    /\ currentCountyFilter = null
    /\ currentProjectTypeFilter = null
    /\ database = noDatabase
    /\ projectCounts = [awarded |-> 0, current |-> 0]
    /\ projectYearsChart = <<>>
    /\ tableRows = <<>>
    /\ projectsPanelTitle = "Projects"
    /\ tableDataTitle = "Highway Projects Data"
    /\ mapView = "Kentucky"
    /\ countyLayers = <<>>
    /\ districtLayers = {}
    /\ allProjectsLayer = FALSE
    /\ districtOptions = {}
    /\ districtMenuLoaded = FALSE
    /\ loadBtn = [textContent |-> "Initializing...", disabled |-> TRUE]
    /\ pendingLoads = <<"initSqlJs">>
    /\ recordCountText = "Loading SQL.js library..."
    /\ lastOp = "other"
    /\ currentProjectsLayer = noLayer
    /\ awardedProjectsLayer = noLayer
    /\ instructionBox = noInstructionBox
    /\ apiCalls = <<>>
    /\ alertShown = FALSE
    /\ resultsPopup = noPopup
    /\ clipboard = noSummary
    /\ printWindow = noSummary
    /\ server = noRequest
    /\ trace = <<>>

\* a sequence without its i-th element
RemoveAt(seq, i) == SubSeq(seq, 1, i - 1) \o SubSeq(seq, i + 1, Len(seq))

\* loadDatabase up to its first await, leaving the button enabled
loadDatabaseClickNotDisabling ==
    /\ ~loadBtn.disabled
    /\ loadBtn' = [loadBtn EXCEPT !.textContent = "Initializing..."]
    /\ pendingLoads' = Append(pendingLoads, "initSqlJs")
    /\ recordCountText' = "Loading SQL.js library..."
    /\ lastOp' = "other"
    /\ UNCHANGED server
    /\ UNCHANGED output
    /\ trace' = <<>>
    /\ UNCHANGED <<projectLayers, route>>
    /\ UNCHANGED <<filters, database, projectCounts, projectYearsChart, tableRows,
                   titles, mapView, layers, menus>>

\* a click on #loadDataBtn (a disabled button receives none): loadDatabase up
\* to its first await
loadDatabaseClick ==
    /\ ~loadBtn.disabled
    /\ loadBtn' = [textContent |-> "Initializing...", disabled |-> TRUE]
    /\ pendingLoads' = Append(pendingLoads, "initSqlJs")
    /\ recordCountText' = "Loading SQL.js library..."
    /\ lastOp' = "other"
    /\ UNCHANGED server
    /\ UNCHANGED output
    /\ trace' = <<>>
    /\ UNCHANGED <<projectLayers, route>>
    /\ UNCHANGED <<filters, database, projectCounts, projectYearsChart, tableRows,
                   titles, mapView, layers, menus>>

\* await initSqlJs(...) resolves: loadDatabase up to await fetch(...)
initSqlJsResolved ==
    /\ \E i \in DOMAIN pendingLoads :
          /\ pendingLoads[i] = "initSqlJs"
          /\ pendingLoads' = [pendingLoads EXCEPT ![i] = "fetch"]
    /\ recordCountText' = "Fetching database file..."
    /\ lastOp' = "other"
    /\ UNCHANGED server
    /\ UNCHANGED output
    /\ trace' = <<>>
    /\ UNCHANGED <<projectLayers, route>>
    /\ UNCHANGED <<filters, database, projectCounts, projectYearsChart, tableRows,
                   titles, mapView, layers, menus, loadBtn>>

\* await fetch(...) resolves with response.ok: loadDatabase up to
\* await response.arrayBuffer()
fetchResolved ==
    /\ \E i \in DOMAIN pendingLoads :
          /\ pendingLoads[i] = "fetch"
          /\ pendingLoads' = [pendingLoads EXCEPT ![i] = "arrayBuffer"]
    /\ recordCountText' = "Processing database..."
    /\ lastOp' = "other"
    /\ UNCHANGED server
    /\ UNCHANGED output
    /\ trace' = <<>>
    /\ UNCHANGED <<projectLayers, route>>
    /\ UNCHANGED <<filters, database, projectCounts, projectYearsChart, tableRows,
                   titles, mapView, layers, menus, loadBtn>>

\* the end of loadDatabase, re-enabling the button after the load
loadDatabaseResolvedEnabling(db) ==
    /\ \E i \in DOMAIN pendingLoads :
          /\ pendingLoads[i] = "arrayBuffer"
          /\ pendingLoads' = RemoveAt(pendingLoads, i)
    /\ database' = db
    /\ Show(loadBasicProjectInfo(db, cur))
    /\ loadBtn' = [textContent |-> "Database Loaded", disabled |-> FALSE]
    /\ lastOp' = "other"
    /\ UNCHANGED server
    /\ UNCHANGED output
    /\ UNCHANGED <<projectLayers, route>>
    /\ UNCHANGED <<filters, titles, mapView, layers, menus>>

\* await response.arrayBuffer() resolves with the bytes of snapshot db and
\* new SQL.Database(...) returns: loadDatabase to its end
loadDatabaseResolved(db) ==
    /\ \E i \in DOMAIN pendingLoads :
          /\ pendingLoads[i] = "arrayBuffer"
          /\ pendingLoads' = RemoveAt(pendingLoads, i)
    /\ database' = db
    /\ Show(loadBasicProjectInfo(db, cur))
    /\ loadBtn' = [loadBtn EXCEPT !.textContent = "Database Loaded"]
    /\ lastOp' = "other"
    /\ UNCHANGED server
    /\ UNCHANGED output
    /\ UNCHANGED <<projectLayers, route>>
    /\ UNCHANGED <<filters, titles, mapView, layers, menus>>

\* loadDatabase without its catch block: the rejection ends the call
loadDatabaseFailedUncaught ==
    /\ \E i \in DOMAIN pendingLoads : pendingLoads' = RemoveAt(pendingLoads, i)
    /\ lastOp' = "other"
    /\ UNCHANGED server
    /\ UNCHANGED output
    /\ trace' = <<>>
    /\ UNCHANGED <<projectLayers, route>>
    /\ UNCHANGED <<filters, database, projectCounts, projectYearsChart, tableRows,
                   titles, mapView, layers, menus, loadBtn, recordCountText>>

\* an await of loadDatabase rejects, the response is not ok, or
\* new SQL.Database(...) throws: the catch block
loadDatabaseFailed ==
    /\ \E i \in DOMAIN pendingLoads : pendingLoads' = RemoveAt(pendingLoads, i)
    /\ loadBtn' = [textContent |-> "Load Database", disabled |-> FALSE]
    /\ recordCountText' = "Error: (Check browser console for details)"
    /\ lastOp' = "other"
    /\ UNCHANGED server
    /\ UNCHANGED output
    /\ trace' = <<>>
    /\ UNCHANGED <<projectLayers, route>>
    /\ UNCHANGED <<filters, database, projectCounts, projectYearsChart, tableRows,
                   titles, mapView, layers, menus>>

\* loadGeoJSONLayer resolves for data/KYTC_Districts.geojson
districtLayerLoaded ==
    /\ districtLayers = {}
    /\ districtLayers' = DistrictFeatureKeys
    /\ lastOp' = "other"
    /\ UNCHANGED server
    /\ UNCHANGED output
    /\ trace' = <<>>
    /\ UNCHANGED <<projectLayers, route>>
    /\ UNCHANGED <<filters, database, views, recordCountText, titles, mapView,
                   countyLayers, allProjectsLayer, menus, loading>>

\* loadGeoJSONLayer resolves for a data/KY_Counties.geojson with county names
\* `names`
countyLayerLoadedFrom(names) ==
    /\ countyLayers = <<>>
    /\ countyLayers' = names
    /\ lastOp' = "other"
    /\ UNCHANGED server
    /\ UNCHANGED output
    /\ trace' = <<>>
    /\ UNCHANGED <<projectLayers, route>>
    /\ UNCHANGED <<filters, database, views, recordCountText, titles, mapView,
                   districtLayers, allProjectsLayer, menus, loading>>

\* loadGeoJSONLayer resolves for data/KY_Counties.geojson
countyLayerLoaded ==
    /\ countyLayers = <<>>
    /\ countyLayers' = CountyFeatureNames
    /\ lastOp' = "other"
    /\ UNCHANGED server
    /\ UNCHANGED output
    /\ trace' = <<>>
    /\ UNCHANGED <<projectLayers, route>>
    /\ UNCHANGED <<filters, database, views, recordCountText, titles, mapView,
                   districtLayers, allProjectsLayer, menus, loading>>

\* loadGeoJSONLayer resolves for data/Awarded_Highway_Plans.geojson
awardedLayerLoaded ==
    /\ ~allProjectsLayer
    /\ allProjectsLayer' = TRUE
    /\ awardedProjectsLayer' = addedLayer(AwardedFeatures)
    /\ mapView' = "allProjects"
    /\ lastOp' = "other"
    /\ UNCHANGED server
    /\ UNCHANGED output
    /\ trace' = <<>>
    /\ UNCHANGED route
    /\ UNCHANGED <<filters, database, views, recordCountText, titles,
                   countyLayers, districtLayers, menus, loading, currentProjectsLayer>>

\* first opening of the district menu
loadDistrictOptions ==
    /\ ~districtMenuLoaded
    /\ districtMenuLoaded' = TRUE
    /\ districtOptions' = districtOptionsOf(database)
    /\ lastOp' = "other"
    /\ UNCHANGED server
    /\ UNCHANGED output
    /\ trace' = <<>>
    /\ UNCHANGED <<projectLayers, route>>
    /\ UNCHANGED <<filters, database, views, recordCountText, titles, mapView,
                   layers, loading>>

\* a click on .district-filter-btn that shows the menu: the options are
\* loaded on the first such click only
openDistrictMenu ==
    /\ IF ~districtMenuLoaded
       THEN /\ districtOptions' = districtOptionsOf(database)
            /\ districtMenuLoaded' = TRUE
       ELSE UNCHANGED menus
    /\ lastOp' = "openDistrictMenu"
    /\ UNCHANGED server
    /\ UNCHANGED output
    /\ trace' = <<>>
    /\ UNCHANGED <<projectLayers, route>>
    /\ UNCHANGED <<filters, database, views, recordCountText, titles, mapView,
                   layers, loading>>

\* applyCountyFilter calling updatePanelTitles before it assigns the filter
applyCountyFilterTitlesFirst(countyName) ==
    /\ database.loaded
    /\ SetTitles(updatePanelTitles(database, currentDistrictFilter,
                                   currentCountyFilter, currentProjectTypeFilter))
    /\ currentCountyFilter' = countyName
    /\ mapView' = zoomToCounty(countyName, countyLayers, mapView)
    /\ Show(loadFilteredBasicProjectInfoByCounty(database, countyName,
                loadFilteredProjectCountByYearByCounty(database, countyName,
                    loadFilteredProjectsAwardedDataByCounty(database, countyName,
                        after(<<"titles", "filter", "zoom">>)))))
    /\ lastOp' = "applyCountyFilter"
    /\ UNCHANGED server
    /\ UNCHANGED output
    /\ UNCHANGED <<projectLayers, route>>
    /\ UNCHANGED <<currentDistrictFilter, currentProjectTypeFilter, database,
                   layers, menus, loading>>

\* applyCountyFilter returning after a zoomToCounty that found no layer
applyCountyFilterIfFound(countyName) ==
    /\ database.loaded
    /\ currentCountyFilter' = countyName
    /\ SetTitles(updatePanelTitles(database, currentDistrictFilter, countyName,
                                   currentProjectTypeFilter))
    /\ mapView' = zoomToCounty(countyName, countyLayers, mapView)
    /\ IF zoomToCounty(countyName, countyLayers, null) = null
       THEN Show(after(zoomSteps))
       ELSE Show(loadFilteredBasicProjectInfoByCounty(database, countyName,
                loadFilteredProjectCountByYearByCounty(database, countyName,
                    loadFilteredProjectsAwardedDataByCounty(database, countyName,
                        after(zoomSteps)))))
    /\ lastOp' = "applyCountyFilter"
    /\ UNCHANGED server
    /\ UNCHANGED output
    /\ UNCHANGED <<projectLayers, route>>
    /\ UNCHANGED <<currentDistrictFilter, currentProjectTypeFilter, database,
                   layers, menus, loading>>

applyCountyFilter(countyName) ==
    /\ database.loaded
    /\ currentCountyFilter' = countyName
    /\ SetTitles(updatePanelTitles(database, currentDistrictFilter, countyName,
                                   currentProjectTypeFilter))
    /\ mapView' = zoomToCounty(countyName, countyLayers, mapView)
    /\ Show(loadFilteredBasicProjectInfoByCounty(database, countyName,
                loadFilteredProjectCountByYearByCounty(database, countyName,
                    loadFilteredProjectsAwardedDataByCounty(database, countyName,
                        after(zoomSteps)))))
    /\ lastOp' = "applyCountyFilter"
    /\ UNCHANGED server
    /\ UNCHANGED output
    /\ UNCHANGED <<projectLayers, route>>
    /\ UNCHANGED <<currentDistrictFilter, currentProjectTypeFilter, database,
                   layers, menus, loading>>

clearCountyFilter ==
    /\ currentCountyFilter' = null
    /\ SetTitles(updatePanelTitles(database, currentDistrictFilter, null,
                                   currentProjectTypeFilter))
    /\ mapView' = resetMapView(allProjectsLayer)
    /\ IF Truthy(currentDistrictFilter)
       THEN Show(loadFilteredBasicProjectInfo(database, currentDistrictFilter,
                     loadFilteredProjectCountByYear(database, currentDistrictFilter,
                         loadFilteredProjectsAwardedData(database,
                             currentDistrictFilter, after(zoomSteps)))))
       ELSE Show(loadBasicProjectInfo(database, loadProjectCountByYear(database,
                     loadProjectsAwardedData(database, after(zoomSteps)))))
    /\ lastOp' = "clearCountyFilter"
    /\ UNCHANGED server
    /\ UNCHANGED output
    /\ UNCHANGED <<projectLayers, route>>
    /\ UNCHANGED <<currentDistrictFilter, currentProjectTypeFilter, database,
                   layers, menus, loading>>

\* applyDistrictFilter resetting the county and project-type filters as well
applyDistrictFilterExclusive(districtNumber) ==
    /\ database.loaded
    /\ currentDistrictFilter' = districtNumber
    /\ currentCountyFilter' = null
    /\ currentProjectTypeFilter' = null
    /\ SetTitles(updatePanelTitles(database, districtNumber, null, null))
    /\ mapView' = zoomToDistrict(districtNumber, districtLayers, mapView)
    /\ Show(loadFilteredBasicProjectInfo(database, districtNumber,
                loadFilteredProjectCountByYear(database, districtNumber,
                    loadFilteredProjectsAwardedData(database, districtNumber, after(zoomSteps)))))
    /\ lastOp' = "applyDistrictFilter"
    /\ UNCHANGED server
    /\ UNCHANGED output
    /\ UNCHANGED <<projectLayers, route>>
    /\ UNCHANGED <<database, layers, menus, loading>>

applyDistrictFilter(districtNumber) ==
    /\ database.loaded
    /\ currentDistrictFilter' = districtNumber
    /\ SetTitles(updatePanelTitles(database, districtNumber, currentCountyFilter,
                                   currentProjectTypeFilter))
    /\ mapView' = zoomToDistrict(districtNumber, districtLayers, mapView)
    /\ Show(loadFilteredBasicProjectInfo(database, districtNumber,
                loadFilteredProjectCountByYear(database, districtNumber,
                    loadFilteredProjectsAwardedData(database, districtNumber, after(zoomSteps)))))
    /\ lastOp' = "applyDistrictFilter"
    /\ UNCHANGED server
    /\ UNCHANGED output
    /\ UNCHANGED <<projectLayers, route>>
    /\ UNCHANGED <<currentCountyFilter, currentProjectTypeFilter, database,
                   layers, menus, loading>>

clearDistrictFilter ==
    /\ currentDistrictFilter' = null
    /\ SetTitles(updatePanelTitles(database, null, currentCountyFilter,
                                   currentProjectTypeFilter))
    /\ mapView' = resetMapView(allProjectsLayer)
    /\ IF Truthy(currentCountyFilter)
       THEN Show(loadFilteredBasicProjectInfoByCounty(database, currentCountyFilter,
                     loadFilteredProjectCountByYearByCounty(database,
                         currentCountyFilter,
                         loadFilteredProjectsAwardedDataByCounty(database,
                             currentCountyFilter, after(zoomSteps)))))
       ELSE Show(loadBasicProjectInfo(database, loadProjectCountByYear(database,
                     loadProjectsAwardedData(database, after(zoomSteps)))))
    /\ lastOp' = "clearDistrictFilter"
    /\ UNCHANGED server
    /\ UNCHANGED output
    /\ UNCHANGED <<projectLayers, route>>
    /\ UNCHANGED <<currentCountyFilter, currentProjectTypeFilter, database,
                   layers, menus, loading>>

applyProjectTypeFilter(projectType) ==
    /\ database.loaded
    /\ currentProjectTypeFilter' = projectType
    /\ SetTitles(updatePanelTitles(database, currentDistrictFilter,
                                   currentCountyFilter, projectType))
    /\ currentProjectsLayer' =
           filterLayer(database, currentProjectsLayer, CurrentFeatures, projectType)
    /\ awardedProjectsLayer' =
           filterLayer(database, awardedProjectsLayer, AwardedFeatures, projectType)
    /\ Show(updateChartsAndTable(database, currentDistrictFilter,
                                 currentCountyFilter, projectType, after(restyleSteps)))
    /\ lastOp' = "applyProjectTypeFilter"
    /\ UNCHANGED server
    /\ UNCHANGED output
    /\ UNCHANGED route
    /\ UNCHANGED <<currentDistrictFilter, currentCountyFilter, database, mapView,
                   layers, menus, loading>>

clearProjectTypeFilter ==
    /\ currentProjectTypeFilter' = null
    /\ SetTitles(updatePanelTitles(database, currentDistrictFilter,
                                   currentCountyFilter, null))
    /\ currentProjectsLayer' = resetLayer(currentProjectsLayer)
    /\ awardedProjectsLayer' = resetLayer(awardedProjectsLayer)
    /\ Show(updateChartsAndTable(database, currentDistrictFilter,
                                 currentCountyFilter, null, after(restyleSteps)))
    /\ lastOp' = "clearProjectTypeFilter"
    /\ UNCHANGED server
    /\ UNCHANGED output
    /\ UNCHANGED route
    /\ UNCHANGED <<currentDistrictFilter, currentCountyFilter, database, mapView,
                   layers, menus, loading>>

\* clearAllFilters leaving currentProjectTypeFilter as it is
clearAllFiltersKeepingProjectType ==
    /\ currentDistrictFilter' = null
    /\ currentCountyFilter' = null
    /\ SetTitles(updatePanelTitles(database, null, null, currentProjectTypeFilter))
    /\ mapView' = resetMapView(allProjectsLayer)
    /\ currentProjectsLayer' = resetLayer(currentProjectsLayer)
    /\ awardedProjectsLayer' = resetLayer(awardedProjectsLayer)
    /\ Show(loadBasicProjectInfo(database, loadProjectCountByYear(database,
                loadProjectsAwardedData(database, after(resetSteps)))))
    /\ lastOp' = "clearAllFilters"
    /\ UNCHANGED server
    /\ UNCHANGED output
    /\ UNCHANGED route
    /\ UNCHANGED <<currentProjectTypeFilter, database, layers, menus, loading>>

clearAllFilters ==
    /\ currentDistrictFilter' = null
    /\ currentCountyFilter' = null
    /\ currentProjectTypeFilter' = null
    /\ SetTitles(updatePanelTitles(database, null, null, null))
    /\ mapView' = resetMapView(allProjectsLayer)
    /\ currentProjectsLayer' = resetLayer(currentProjectsLayer)
    /\ awardedProjectsLayer' = resetLayer(awardedProjectsLayer)
    /\ Show(loadBasicProjectInfo(database, loadProjectCountByYear(database,
                loadProjectsAwardedData(database, after(resetSteps)))))
    /\ lastOp' = "clearAllFilters"
    /\ UNCHANGED server
    /\ UNCHANGED output
    /\ UNCHANGED route
    /\ UNCHANGED <<database, layers, menus, loading>>

\* loadGeoJSONLayer resolves for data/Current_Highway_Plans.geojson
currentLayerLoaded ==
    /\ ~currentProjectsLayer.loaded
    /\ currentProjectsLayer' = addedLayer(CurrentFeatures)
    /\ lastOp' = "other"
    /\ UNCHANGED server
    /\ UNCHANGED output
    /\ trace' = <<>>
    /\ UNCHANGED <<filters, database, views, recordCountText, titles, mapView,
                   layers, menus, loading, awardedProjectsLayer, route>>

\* a click on .kytc-api-btn
enableKYTCAPIMode ==
    /\ instructionBox' = showKYTCInstructions
    /\ currentProjectsLayer' = selectable(currentProjectsLayer)
    /\ awardedProjectsLayer' = selectable(awardedProjectsLayer)
    /\ lastOp' = "other"
    /\ UNCHANGED server
    /\ UNCHANGED output
    /\ trace' = <<>>
    /\ UNCHANGED <<filters, database, views, recordCountText, titles, mapView,
                   layers, menus, loading, apiCalls, alertShown, resultsPopup>>

\* a click on a project line that carries the selection handler
handleProjectLineSelection(layer, features, i) ==
    /\ layer.loaded
    /\ layer.click = "selection"
    /\ instructionBox' = updateKYTCInstructionsWithValues(instructionBox,
                             features[i].RT_NE_UNIQUE, features[i].BMP, features[i].EMP)
    /\ lastOp' = "other"
    /\ UNCHANGED server
    /\ UNCHANGED output
    /\ trace' = <<>>
    /\ UNCHANGED <<filters, database, views, recordCountText, titles, mapView,
                   layers, menus, loading, projectLayers, apiCalls, alertShown,
                   resultsPopup>>

\* disableKYTCAPIMode: a click on .kytc-cancel-btn
cancelKYTCInstructions ==
    /\ instructionBox.state # "none"
    /\ instructionBox' = noInstructionBox
    /\ currentProjectsLayer' = unclickable(currentProjectsLayer)
    /\ awardedProjectsLayer' = unclickable(awardedProjectsLayer)
    /\ lastOp' = "other"
    /\ UNCHANGED server
    /\ UNCHANGED output
    /\ trace' = <<>>
    /\ UNCHANGED <<filters, database, views, recordCountText, titles, mapView,
                   layers, menus, loading, apiCalls, alertShown, resultsPopup>>

\* a click on .kytc-get-info-btn: callKYTCAPI up to await fetch(apiUrl)
callKYTCAPI ==
    /\ instructionBox.state = "selected"
    /\ Len(apiCalls) < MaxApiCalls
    /\ apiCalls' = Append(apiCalls, [rtNeUnique |-> instructionBox.rtNeUnique,
                                     bmp |-> instructionBox.bmp,
                                     emp |-> instructionBox.emp])
    /\ lastOp' = "other"
    /\ UNCHANGED server
    /\ UNCHANGED output
    /\ trace' = <<>>
    /\ UNCHANGED <<filters, database, views, recordCountText, titles, mapView,
                   layers, menus, loading, projectLayers, instructionBox, alertShown,
                   resultsPopup>>

\* callKYTCAPI whose catch block only logs
callKYTCAPIFailedSilently ==
    /\ \E i \in DOMAIN apiCalls : apiCalls' = RemoveAt(apiCalls, i)
    /\ lastOp' = "other"
    /\ UNCHANGED server
    /\ UNCHANGED output
    /\ trace' = <<>>
    /\ UNCHANGED <<filters, database, views, recordCountText, titles, mapView,
                   layers, menus, loading, projectLayers, instructionBox, alertShown,
                   resultsPopup>>

\* the fetch rejects, the response is not ok, or response.json() rejects:
\* the catch block of callKYTCAPI
callKYTCAPIFailed ==
    /\ \E i \in DOMAIN apiCalls : apiCalls' = RemoveAt(apiCalls, i)
    /\ alertShown' = TRUE
    /\ lastOp' = "other"
    /\ UNCHANGED server
    /\ UNCHANGED output
    /\ trace' = <<>>
    /\ UNCHANGED <<filters, database, views, recordCountText, titles, mapView,
                   layers, menus, loading, projectLayers, instructionBox, resultsPopup>>

\* await response.json() resolves with data: showKYTCResults(data, map)
callKYTCAPIResolved(data) ==
    /\ \E i \in DOMAIN apiCalls : apiCalls' = RemoveAt(apiCalls, i)
    /\ resultsPopup' = showKYTCResults(data)
    /\ lastOp' = "other"
    /\ UNCHANGED server
    /\ UNCHANGED output
    /\ trace' = <<>>
    /\ UNCHANGED <<filters, database, views, recordCountText, titles, mapView,
                   layers, menus, loading, projectLayers, instructionBox, alertShown>>

\* the user dismisses the alert() dialog
dismissAlert ==
    /\ alertShown
    /\ alertShown' = FALSE
    /\ lastOp' = "other"
    /\ UNCHANGED server
    /\ UNCHANGED output
    /\ trace' = <<>>
    /\ UNCHANGED <<filters, database, views, recordCountText, titles, mapView,
                   layers, menus, loading, projectLayers, instructionBox, apiCalls,
                   resultsPopup>>

\* a click on .kytc-copy-btn, the clipboard accepting the text
copyRouteClick ==
    /\ resultsPopup.shown
    /\ IF noRouteInfo(resultsPopup.data)
       THEN alertShown' = TRUE /\ UNCHANGED clipboard
       ELSE clipboard' = copyRouteInformation(resultsPopup.data)
            /\ UNCHANGED alertShown
    /\ lastOp' = "other"
    /\ UNCHANGED server
    /\ trace' = <<>>
    /\ UNCHANGED <<filters, database, views, recordCountText, titles, mapView,
                   layers, menus, loading, projectLayers, instructionBox, apiCalls,
                   resultsPopup, printWindow>>

\* a click on .kytc-copy-btn, writeText rejecting: the catch alerts
copyRouteClickRejected ==
    /\ resultsPopup.shown
    /\ ~noRouteInfo(resultsPopup.data)
    /\ alertShown' = TRUE
    /\ lastOp' = "other"
    /\ UNCHANGED server
    /\ trace' = <<>>
    /\ UNCHANGED <<filters, database, views, recordCountText, titles, mapView,
                   layers, menus, loading, projectLayers, instructionBox, apiCalls,
                   resultsPopup, output>>

\* a click on .kytc-print-btn
printRouteClick ==
    /\ resultsPopup.shown
    /\ IF noRouteInfo(resultsPopup.data)
       THEN alertShown' = TRUE /\ UNCHANGED printWindow
       ELSE printWindow' = printRouteInformation(resultsPopup.data)
            /\ UNCHANGED alertShown
    /\ lastOp' = "other"
    /\ UNCHANGED server
    /\ trace' = <<>>
    /\ UNCHANGED <<filters, database, views, recordCountText, titles, mapView,
                   layers, menus, loading, projectLayers, instructionBox, apiCalls,
                   resultsPopup, clipboard>>

\* a click on .kytc-close-btn of the results popup
closeKYTCResults ==
    /\ resultsPopup.shown
    /\ resultsPopup' = noPopup
    /\ instructionBox' = noInstructionBox
    /\ currentProjectsLayer' = unclickable(currentProjectsLayer)
    /\ awardedProjectsLayer' = unclickable(awardedProjectsLayer)
    /\ lastOp' = "other"
    /\ UNCHANGED server
    /\ UNCHANGED output
    /\ trace' = <<>>
    /\ UNCHANGED <<filters, database, views, recordCountText, titles, mapView,
                   layers, menus, loading, apiCalls, alertShown>>

\* updateChartsAndTable() run on its own: the refresh of the current filters
refresh ==
    /\ Show(updateChartsAndTable(database, currentDistrictFilter,
                                 currentCountyFilter, currentProjectTypeFilter, cur))
    /\ lastOp' = "refresh"
    /\ UNCHANGED server
    /\ UNCHANGED output
    /\ UNCHANGED <<projectLayers, route>>
    /\ UNCHANGED <<filters, database, titles, mapView, layers, menus, loading>>

Next ==
    \/ loadDatabaseClick
    \/ initSqlJsResolved
    \/ fetchResolved
    \/ \E db \in Snapshots : loadDatabaseResolved(db)
    \/ loadDatabaseFailed
    \/ districtLayerLoaded
    \/ countyLayerLoaded
    \/ awardedLayerLoaded
    \/ loadDistrictOptions
    \/ \E countyName \in CountyInputs : applyCountyFilter(countyName)
    \/ clearCountyFilter
    \/ \E districtNumber \in DistrictInputs \cup districtOptions :
           applyDistrictFilter(districtNumber)
    \/ clearDistrictFilter
    \/ \E projectType \in ProjectTypeInputs : applyProjectTypeFilter(projectType)
    \/ clearProjectTypeFilter
    \/ clearAllFilters
    \/ refresh

Spec == Init /\ [][Next]_vars

(***************************************************************************)
(* County lookups against the county names a boundary file may carry       *)
(***************************************************************************)
\* the snapshot the lookups run against: all views, MaxRecords - 1 runs
LookupSnapshots ==
    {db \in Snapshots : /\ "KYTC_Districts" \in db.tables
                        /\ Len(db.recs) = MaxRecords - 1}

LookupNext ==
    \/ \E names \in StoredKeySeqs : countyLayerLoadedFrom(names)
    \/ initSqlJsResolved
    \/ fetchResolved
    \/ \E db \in LookupSnapshots : loadDatabaseResolved(db)
    \/ \E countyName \in LookupInputs : applyCountyFilter(countyName)
    \/ clearCountyFilter

SpecLookup == Init /\ [][LookupNext]_vars

(***************************************************************************)
(* The load of the snapshot, with the bodies the server may answer with    *)
(***************************************************************************)
\* a response body that is not an SQLite file: sql.js opens the file lazily,
\* so new SQL.Database(...) returns a handle on which every query throws
invalidSnapshot == [loaded |-> TRUE, recs |-> <<>>, tables |-> {}, districtNames |-> <<>>]

LoadSnapshots == Snapshots \cup {invalidSnapshot}

\* one step of a loadDatabase call in flight: an await settles
loadStep ==
    \/ initSqlJsResolved
    \/ fetchResolved
    \/ \E db \in LoadSnapshots : loadDatabaseResolved(db)
    \/ loadDatabaseFailed

LoadNext ==
    \/ loadDatabaseClick
    \/ loadStep
    \/ districtLayerLoaded
    \/ awardedLayerLoaded
    \/ loadDistrictOptions
    \/ openDistrictMenu
    \/ clearAllFilters
    \/ refresh

SpecLoad == Init /\ [][LoadNext]_vars

\* every pending promise of loadDatabase eventually resolves or rejects
SpecLoadFair == SpecLoad /\ WF_vars(loadStep)

(***************************************************************************)
(* The route lookup next to the project-type filter                        *)
(***************************************************************************)
\* the snapshot the lookups run next to: all views, MaxRecords - 1 runs
RouteSnapshots == LookupSnapshots

\* alert() blocks the page: nothing else runs until the dialog is dismissed
RouteNext ==
    \/ dismissAlert
    \/ ~alertShown /\ initSqlJsResolved
    \/ ~alertShown /\ fetchResolved
    \/ ~alertShown /\ \E db \in RouteSnapshots : loadDatabaseResolved(db)
    \/ ~alertShown /\ awardedLayerLoaded
    \/ ~alertShown /\ currentLayerLoaded
    \/ ~alertShown /\ \E projectType \in ProjectTypeInputs :
                          applyProjectTypeFilter(projectType)
    \/ ~alertShown /\ clearProjectTypeFilter
    \/ ~alertShown /\ enableKYTCAPIMode
    \/ ~alertShown /\ \E i \in DOMAIN CurrentFeatures :
           handleProjectLineSelection(currentProjectsLayer, CurrentFeatures, i)
    \/ ~alertShown /\ \E i \in DOMAIN AwardedFeatures :
           handleProjectLineSelection(awardedProjectsLayer, AwardedFeatures, i)
    \/ ~alertShown /\ cancelKYTCInstructions
    \/ ~alertShown /\ callKYTCAPI
    \/ ~alertShown /\ callKYTCAPIFailed
    \/ ~alertShown /\ \E data \in ApiResponses : callKYTCAPIResolved(data)
    \/ ~alertShown /\ closeKYTCResults

SpecRoute == Init /\ [][RouteNext]_vars

(***************************************************************************)
(* The results popup with its copy and print buttons                       *)
(***************************************************************************)
SummaryNext ==
    \/ dismissAlert
    \/ ~alertShown /\ currentLayerLoaded
    \/ ~alertShown /\ enableKYTCAPIMode
    \/ ~alertShown /\ \E i \in DOMAIN CurrentFeatures :
           handleProjectLineSelection(currentProjectsLayer, CurrentFeatures, i)
    \/ ~alertShown /\ cancelKYTCInstructions
    \/ ~alertShown /\ callKYTCAPI
    \/ ~alertShown /\ callKYTCAPIFailed
    \/ ~alertShown /\ \E data \in ApiResponses : callKYTCAPIResolved(data)
    \/ ~alertShown /\ copyRouteClick
    \/ ~alertShown /\ copyRouteClickRejected
    \/ ~alertShown /\ printRouteClick
    \/ ~alertShown /\ closeKYTCResults

SpecSummary == Init /\ [][SummaryNext]_vars

(***************************************************************************)
(* POST /api/update-projects                                               *)
(***************************************************************************)
\* the request arrives: the handler runs to its first await, with the open
\* and the DELETE handed to sqlite3
postUpdateProjects ==
    /\ ~server.crashed
    /\ server.phase \in {"idle", "done"}
    /\ server.opened # "pending"
    /\ \A i \in DOMAIN server.inserts : server.inserts[i] # "pending"
    /\ server' = [noRequest EXCEPT !.phase = "awaitTruncate", !.opened = "pending"]
    /\ UNCHANGED client

\* the callback of new sqlite3.Database without an error
dbOpened ==
    /\ ~server.crashed
    /\ server.opened = "pending"
    /\ server' = [server EXCEPT !.opened = "ok"]
    /\ UNCHANGED client

\* the callback of new sqlite3.Database with an error
dbOpenFailed ==
    /\ ~server.crashed
    /\ server.opened = "pending"
    /\ server' = [respond(server, "Failed to open DB") EXCEPT !.opened = "failed"]
    /\ UNCHANGED client

\* the callback of DELETE FROM projects without an error: the handler goes on
\* to pipe the CSV file
truncateDone ==
    /\ ~server.crashed
    /\ server.phase = "awaitTruncate"
    /\ server.opened = "ok"
    /\ server' = [server EXCEPT !.truncated = TRUE, !.phase = "awaitCsv"]
    /\ UNCHANGED client

\* the callback of DELETE FROM projects with an error, as on a handle that
\* failed to open: the promise rejects into the catch block
truncateFailed ==
    /\ ~server.crashed
    /\ server.phase = "awaitTruncate"
    /\ server.opened # "pending"
    /\ server' = catchBlock(respond(server, "Failed to truncate table"))
    /\ UNCHANGED client

\* 'data': a row is read and its INSERT handed to sqlite3
csvData ==
    /\ ~server.crashed
    /\ server.phase = "awaitCsv"
    /\ Len(server.inserts) < MaxCsvRows
    /\ server' = [server EXCEPT !.inserts = Append(@, "pending")]
    /\ UNCHANGED client

\* 'end': the handler goes on to await the inserts
csvEnd ==
    /\ ~server.crashed
    /\ server.phase = "awaitCsv"
    /\ server' = awaitAll([server EXCEPT !.ended = TRUE])
    /\ UNCHANGED client

\* 'error' of the CSV parser
csvError ==
    /\ ~server.crashed
    /\ server.phase = "awaitCsv"
    /\ server' = catchBlock(respond(server, "CSV read error"))
    /\ UNCHANGED client

\* 'error' of the file stream, which has no listener: the process exits
readStreamError ==
    /\ ~server.crashed
    /\ server.phase = "awaitCsv"
    /\ server' = [server EXCEPT !.crashed = TRUE]
    /\ UNCHANGED client

\* the callback of the INSERT of row i without an error
insertDone(i) ==
    /\ ~server.crashed
    /\ server.inserts[i] = "pending"
    /\ LET s == [server EXCEPT !.inserts[i] = "ok"]
       IN  server' = IF s.phase = "awaitInserts" THEN awaitAll(s) ELSE s
    /\ UNCHANGED client

\* the callback of the INSERT of row i with an error
insertFailed(i) ==
    /\ ~server.crashed
    /\ server.inserts[i] = "pending"
    /\ LET s == respond([server EXCEPT !.inserts[i] = "failed"], "Insert error")
       IN  server' = IF s.phase = "awaitInserts" THEN catchBlock(s) ELSE s
    /\ UNCHANGED client

\* the callback of the INSERT of row i with an error before Promise.all
\* holds the promise, on a runtime that exits on an unhandled rejection
insertFailedUnhandled(i) ==
    /\ ~server.crashed
    /\ server.inserts[i] = "pending"
    /\ ~server.ended
    /\ server' = [respond([server EXCEPT !.inserts[i] = "failed"], "Insert error")
                     EXCEPT !.crashed = TRUE]
    /\ UNCHANGED client

ServerNext ==
    \/ postUpdateProjects
    \/ dbOpened
    \/ dbOpenFailed
    \/ truncateDone
    \/ truncateFailed
    \/ csvData
    \/ csvEnd
    \/ csvError
    \/ readStreamError
    \/ \E i \in DOMAIN server.inserts : insertDone(i)
    \/ \E i \in DOMAIN server.inserts : insertFailed(i)
    \/ \E i \in DOMAIN server.inserts : insertFailedUnhandled(i)

SpecServer == Init /\ [][ServerNext]_vars

(***************************************************************************)
(* Properties of the filter handlers                                       *)
(***************************************************************************)
\* the views as updateChartsAndTable() would draw them for the filters held
viewsOf(d) == <<d.projectCounts, d.projectYearsChart, d.tableRows>>

C2_ViewsMatchFilterState ==
    database.loaded =>
        views = viewsOf(updateChartsAndTable(database, currentDistrictFilter,
                            currentCountyFilter, currentProjectTypeFilter, cur))

\* the unfiltered counts, year series and rows of snapshot db
UnfilteredAggregates(db) ==
    << IF HasTable(db, "ProjectsAwarded")
       THEN [awarded |-> RowCount(Where(db.recs, IsAwarded)),
             current |-> RowCount(Where(db.recs, IsCurrent))]
       ELSE [awarded |-> 0, current |-> RowCount(db.recs)],
       createProjectYearsChart(
           IF HasTable(db, "ProjectCount_Year") THEN GroupByYear(db.recs)
           ELSE GroupByYear(Where(db.recs, LAMBDA r : r.RSY_YEAR >= FallbackMinYear))),
       Limit(db.recs, RowLimit) >>

ValidDistrictValues == {ToString(n) : n \in 1..12}

\* C4: selectDistrict(n) with n outside 1..12 leaves the filter state as it
\* was, so the district filter value, whenever set, is an integer in 1..12.
C4_DistrictFilterInRange ==
    currentDistrictFilter # null => currentDistrictFilter \in ValidDistrictValues

\* C5: the clear control of a category whose filter value is not set changes
\* neither the filter state, nor the titles, nor the map view, nor the counts,
\* year series and table rows on display.
C5_ClearOfUnsetCategoryIsNoOp ==
    [][ /\ (lastOp' = "clearDistrictFilter" /\ currentDistrictFilter = null) =>
               UNCHANGED <<filters, titles, mapView, views>>
        /\ (lastOp' = "clearCountyFilter" /\ currentCountyFilter = null) =>
               UNCHANGED <<filters, titles, mapView, views>>
        /\ (lastOp' = "clearProjectTypeFilter" /\ currentProjectTypeFilter = null) =>
               UNCHANGED <<filters, titles, mapView, views>>
      ]_vars

\* the label the crosswalk gives category p, or p itself when it gives none
displayNameOf(p) ==
    LET labels == {Crosswalk[i].dropdown_display_name :
                      i \in {j \in DOMAIN Crosswalk :
                                /\ Crosswalk[j].dropdown_category = p
                                /\ Crosswalk[j].dropdown_display_name # ""}}
    IN  IF labels = {} THEN p ELSE CHOOSE l \in labels : TRUE

C7_CountyViewsExact ==
    ( /\ lastOp = "applyCountyFilter"
      /\ currentDistrictFilter = null
      /\ currentProjectTypeFilter = null ) =>
        LET c == currentCountyFilter
            m == Where(database.recs, LAMBDA r : r.COUNTY = c)
        IN  /\ projectCounts = [awarded |-> RowCount(Where(m, IsAwarded)),
                                current |-> RowCount(Where(m, IsCurrent))]
            /\ {projectYearsChart[i][1] : i \in DOMAIN projectYearsChart} =
                   {m[i].r.RSY_YEAR : i \in DOMAIN m}
            /\ tableRows = Limit(m, RowLimit)
            /\ projectsPanelTitle = "Projects in " \o c \o " County"

\* C8: after selectDistrict(n) for n in 1..12, awarded + current equals the
\* number of rows the row query returns for the same district (stated for
\* the districts of at most 1000 records, which the row query returns whole).
C8_DistrictCountsSumToRows ==
    ( /\ lastOp = "applyDistrictFilter"
      /\ currentDistrictFilter \in ValidDistrictValues
      /\ RowCount(Where(database.recs, LAMBDA r :
             r.DISTRICT = formattedDistrict(currentDistrictFilter))) <= RowLimit ) =>
        projectCounts.awarded + projectCounts.current = RowCount(tableRows)

C10_RefreshIdempotent ==
    [][ /\ lastOp' = "refresh" => UNCHANGED <<database, filters>>
        /\ (lastOp = "refresh" /\ lastOp' = "refresh") => UNCHANGED views
      ]_vars

\* a refresh has drawn the views of a loaded snapshot under a filter
C10_Refreshed ==
    /\ lastOp = "refresh"
    /\ database.loaded
    /\ currentCountyFilter = "Fayette"
    /\ projectCounts.awarded + projectCounts.current > 0
    /\ views = viewsOf(updateChartsAndTable(database, currentDistrictFilter,
                           currentCountyFilter, currentProjectTypeFilter, cur))

\* a and b are in a substring relationship, case-insensitively
related(a, b) ==
    \/ includes(toLowerCase(a), toLowerCase(b))
    \/ includes(toLowerCase(b), toLowerCase(a))

C12_TableRowsBounded == RowCount(tableRows) <= RowLimit

\* a project type of more than 1000 records is selected and the table holds
\* 1000 rows
C12_ProjectTypeRowsCapped ==
    /\ lastOp = "applyProjectTypeFilter"
    /\ RowCount(JoinByCategory(database, currentProjectTypeFilter)) > RowLimit
    /\ RowCount(tableRows) = RowLimit

\* counts 0/0, a chart without series and a table without rows
noDataShown ==
    /\ projectCounts = [awarded |-> 0, current |-> 0]
    /\ projectYearsChart = <<>>
    /\ tableRows = <<>>

\* C13: after the selection of a county, of a district in 1..12 or of a
\* project type that matches no record, the counts are 0/0, the year chart
\* has no series and the table has no rows.
C13_ZeroMatchShowsNoData ==
    /\ ( /\ lastOp = "applyCountyFilter"
         /\ Where(database.recs, LAMBDA r : r.COUNTY = currentCountyFilter) = <<>> )
           => noDataShown
    /\ ( /\ lastOp = "applyDistrictFilter"
         /\ currentDistrictFilter \in ValidDistrictValues
         /\ Where(database.recs, LAMBDA r :
                r.DISTRICT = formattedDistrict(currentDistrictFilter)) = <<>> )
           => noDataShown
    /\ ( /\ lastOp = "applyProjectTypeFilter"
         /\ JoinByCategory(database, currentProjectTypeFilter) = <<>> )
           => noDataShown

\* C14: a count query that fails with no fallback succeeding leaves 0/0 on
\* display: after selectDistrict on a snapshot without the
\* ProjectsAwarded_ByDistrict view, the only source of the district counts,
\* the counts are 0/0.
C14_FailedCountQueryShowsZero ==
    ( /\ lastOp = "applyDistrictFilter"
      /\ ~HasTable(database, "ProjectsAwarded_ByDistrict") ) =>
        projectCounts = [awarded |-> 0, current |-> 0]

\* snapshot db with every pre-aggregated view present
withViews(db) == [db EXCEPT !.tables = @ \cup AggregateViews]

\* C15: when the pre-aggregated views are unavailable, the awarded/current
\* pair and the year series on display after an unfiltered, a county or a
\* district load are those the views would have given for the same filter.
C15_FallbackEquivalent ==
    (database.loaded /\ database.tables \cap AggregateViews = {}) =>
        /\ lastOp = "clearAllFilters" =>
              LET d == loadProjectCountByYear(withViews(database),
                           loadProjectsAwardedData(withViews(database), cur))
              IN  /\ projectCounts = d.projectCounts
                  /\ projectYearsChart = d.projectYearsChart
        /\ lastOp = "applyCountyFilter" =>
              LET d == loadFilteredProjectCountByYearByCounty(withViews(database),
                           currentCountyFilter,
                           loadFilteredProjectsAwardedDataByCounty(
                               withViews(database), currentCountyFilter, cur))
              IN  /\ projectCounts = d.projectCounts
                  /\ projectYearsChart = d.projectYearsChart
        /\ lastOp = "applyDistrictFilter" =>
              LET d == loadFilteredProjectCountByYear(withViews(database),
                           currentDistrictFilter,
                           loadFilteredProjectsAwardedData(
                               withViews(database), currentDistrictFilter, cur))
              IN  /\ projectCounts = d.projectCounts
                  /\ projectYearsChart = d.projectYearsChart


\* C16: at most one loadDatabase call is in flight, and while one is in flight
\* the load button is disabled, so a click cannot start a second one.
C16_AtMostOneLoadInFlight ==
    /\ Len(pendingLoads) <= 1
    /\ pendingLoads # <<>> => loadBtn.disabled

\* a load is in flight past its first await, the button disabled
C16_LoadInFlight ==
    /\ pendingLoads = <<"fetch">>
    /\ loadBtn = [textContent |-> "Initializing...", disabled |-> TRUE]
    /\ ~database.loaded

isErrorText(t) == Len(t) >= 6 /\ SubSeq(t, 1, 6) = "Error:"

\* a step that ends a loadDatabase call
attemptEnds == Len(pendingLoads') < Len(pendingLoads)

\* C17: a load attempt that ends without a valid snapshot (library init,
\* fetch, HTTP status or an invalid snapshot) shows an error message,
\* re-enables the load button and leaves the store unloaded.
C17_FailedLoadLeavesStoreUnloaded ==
    [][(attemptEnds /\ database' \notin Snapshots) =>
           /\ isErrorText(recordCountText')
           /\ ~loadBtn'.disabled
           /\ ~database'.loaded]_vars

\* C18: once written the store is never reset or replaced, and while it is
\* unloaded no handler changes the counts, the year series, the table rows
\* or the district menu entries, whatever the filters are.
C18_StoreWrittenOnce ==
    /\ [][database.loaded => database' = database]_vars
    /\ [][~database'.loaded =>
              /\ UNCHANGED views
              /\ districtOptions' = {}
              /\ \A dF \in DistrictInputs \cup {null}, cF \in CountyInputs \cup {null},
                    pF \in ProjectTypeInputs \cup {null} :
                       updateChartsAndTable(database', dF, cF, pF, cur) = cur]_vars

\* the filters were cleared and the district menu opened while the load was
\* still in flight
C18_QueriedWhileUnloaded ==
    /\ lastOp = "clearAllFilters"
    /\ districtMenuLoaded
    /\ ~database.loaded
    /\ pendingLoads = <<"arrayBuffer">>
    /\ isErrorText(recordCountText) = FALSE

loadedOutcome == loadBtn.textContent = "Database Loaded"
errorOutcome  == isErrorText(recordCountText) /\ ~loadBtn.disabled

\* C19: every load attempt eventually leaves the loading state, and the step
\* that ends it leaves exactly one of the two outcomes: the button reads
\* 'Database Loaded', or an error is shown and the button is enabled again.
C19_LoadEventuallyEnds ==
    /\ (pendingLoads # <<>>) ~> (pendingLoads = <<>> /\ loadedOutcome # errorOutcome)
    /\ [][attemptEnds => (loadedOutcome' # errorOutcome')]_vars

\* an attempt ended with a snapshot loaded and the button left disabled
C19_EndedLoaded ==
    /\ pendingLoads = <<>>
    /\ loadedOutcome
    /\ database \in Snapshots
    /\ database.recs # <<>>
    /\ loadBtn.disabled


\* a step that ends a callKYTCAPI call
callEnds == Len(apiCalls') < Len(apiCalls)

\* C20: a route lookup that fails or returns no record surfaces a message the
\* user can dismiss (the alert, or the results popup reading 'No route
\* information available.') and leaves the filters, the titles, the counts,
\* the year series, the table rows and the opacity of the project features
\* as they were.
C20_FailedLookupLeavesViews ==
    /\ [][callEnds =>
             /\ alertShown' \/ resultsPopup'.shown
             /\ (alertShown' \/ resultsPopup'.noInfo) =>
                   /\ UNCHANGED <<filters, titles, views>>
                   /\ currentProjectsLayer'.opacity = currentProjectsLayer.opacity
                   /\ awardedProjectsLayer'.opacity = awardedProjectsLayer.opacity]_vars
    /\ [](alertShown => ENABLED dismissAlert)
    /\ [](resultsPopup.shown => ENABLED closeKYTCResults)

\* a lookup failed after another one returned no record, with the bridge
\* filter set and the other project features dimmed
C20_LookupFailedUnderFilter ==
    /\ alertShown
    /\ resultsPopup.noInfo
    /\ currentProjectTypeFilter = "bridge"
    /\ currentProjectsLayer.opacity = <<"0.3", "0.3", "0.3">>
    /\ awardedProjectsLayer.opacity = <<"0.8", "0.3">>
    /\ tableRows # <<>>


\* the crosswalk maps the raw work type to the category
mapsTo(raw, category) ==
    \E i \in DOMAIN Crosswalk : /\ Crosswalk[i].raw_project_type = raw
                                /\ Crosswalk[i].dropdown_category = category

\* the opacities a layer must show under the category
styledFor(layer, features, category) ==
    /\ DOMAIN layer.opacity = DOMAIN features
    /\ \A i \in DOMAIN features :
          layer.opacity[i] = IF mapsTo(features[i].TYPEWORK, category)
                             THEN "0.8" ELSE "0.3"

mapped(raw) == \E i \in DOMAIN Crosswalk : Crosswalk[i].raw_project_type = raw

\* the snapshot without the records whose work type has no crosswalk row
withoutUnmapped(db) == [db EXCEPT !.recs = Where(@, LAMBDA r : mapped(r.TYPE_WORK))]

\* C22: a work type without a crosswalk row is unclassified: for every
\* category a feature carrying it does not match, and the counts, the year
\* series and the rows of the category are what they would be without the
\* records carrying it; after a selection no such record is in the table and
\* every such feature is dimmed.
C22_UnmappedTypeExcluded ==
    /\ [](database.loaded =>
            \A projectType \in ProjectTypeInputs :
               /\ \A i \in DOMAIN CurrentFeatures :
                     ~mapped(CurrentFeatures[i].TYPEWORK) =>
                        ~checkProjectTypeMatch(database, CurrentFeatures[i], projectType)
               /\ \A i \in DOMAIN AwardedFeatures :
                     ~mapped(AwardedFeatures[i].TYPEWORK) =>
                        ~checkProjectTypeMatch(database, AwardedFeatures[i], projectType)
               /\ viewsOf(updateChartsAndTable(database, null, null, projectType, cur))
                  = viewsOf(updateChartsAndTable(withoutUnmapped(database), null, null,
                                                 projectType, cur)))
    /\ [][lastOp' = "applyProjectTypeFilter" =>
             /\ \A i \in DOMAIN tableRows' : mapped(tableRows'[i].r.TYPE_WORK)
             /\ \A i \in DOMAIN currentProjectsLayer'.opacity :
                   ~mapped(CurrentFeatures[i].TYPEWORK) =>
                      currentProjectsLayer'.opacity[i] = "0.3"
             /\ \A i \in DOMAIN awardedProjectsLayer'.opacity :
                   ~mapped(AwardedFeatures[i].TYPEWORK) =>
                      awardedProjectsLayer'.opacity[i] = "0.3"]_vars

\* a category was selected on a snapshot holding a record, and with a feature
\* on the map, whose work type has no crosswalk row
C22_UnmappedRecordLeftOut ==
    /\ lastOp = "applyProjectTypeFilter"
    /\ \E i \in DOMAIN database.recs : ~mapped(database.recs[i].r.TYPE_WORK)
    /\ currentProjectsLayer.loaded
    /\ tableRows # <<>>
    /\ \A i \in DOMAIN tableRows : mapped(tableRows[i].r.TYPE_WORK)


\* the titles composed from the filter values
titlesFor(dF, cF, pF) ==
    LET dPart == IF dF # null THEN " in District " \o dF ELSE ""
        cPart == IF cF # null THEN " in " \o cF \o " County" ELSE ""
        pPart == IF pF # null THEN " (" \o displayNameOf(pF) \o ")" ELSE ""
    IN  << "Projects" \o dPart \o cPart,
           "Highway Projects Data" \o dPart \o cPart \o pPart >>

\* the queries among the steps
queriesIn(steps) == SelectSeq(steps, LAMBDA e : e.step \in {"counts", "years", "rows"})

\* the three queries of one filter, in the order counts, years, rows
threeQueries(kind, value) ==
    << [step |-> "counts", kind |-> kind, value |-> value],
       [step |-> "years", kind |-> kind, value |-> value],
       [step |-> "rows", kind |-> kind, value |-> value] >>

\* C23: a county or district selection whose key matches no stored feature
\* group in any lookup tier leaves the map view as it was, and still sets the
\* filter, recomputes the titles from it and issues the counts, year and row
\* queries for that key.
C23_MissedLookupStillFilters ==
    [][ /\ ( /\ lastOp' = "applyCountyFilter"
             /\ \A i \in DOMAIN countyLayers :
                   ~related(countyLayers[i], currentCountyFilter') ) =>
               /\ mapView' = mapView
               /\ currentCountyFilter' # null
               /\ <<projectsPanelTitle', tableDataTitle'>> =
                     titlesFor(currentDistrictFilter', currentCountyFilter',
                               currentProjectTypeFilter')
               /\ queriesIn(trace') = threeQueries("county", currentCountyFilter')
        /\ ( /\ lastOp' = "applyDistrictFilter"
             /\ \A k \in districtLayers :
                   k \notin {currentDistrictFilter', parseIntKey(currentDistrictFilter')} ) =>
               /\ mapView' = mapView
               /\ currentDistrictFilter' # null
               /\ <<projectsPanelTitle', tableDataTitle'>> =
                     titlesFor(currentDistrictFilter', currentCountyFilter',
                               currentProjectTypeFilter')
               /\ queriesIn(trace') = threeQueries("district", currentDistrictFilter')
      ]_vars

\* a county that no loaded boundary carries was selected while the map was
\* fitted to the projects
C23_CountyWithoutBoundarySelected ==
    /\ lastOp = "applyCountyFilter"
    /\ currentCountyFilter = "Nonexistent County"
    /\ countyLayers = CountyFeatureNames
    /\ mapView = "allProjects"
    /\ projectsPanelTitle = "Projects in Nonexistent County County"
    /\ queriesIn(trace) = threeQueries("county", "Nonexistent County")

\* the record is one the query of the step selects
matches(q, r) ==
    CASE q.kind = "district" -> r.DISTRICT = formattedDistrict(q.value)
      [] q.kind = "county" -> r.COUNTY = q.value
      [] q.kind = "projectType" -> mapsTo(r.TYPE_WORK, q.value)
      [] OTHER -> TRUE

\* the last year query among the steps
lastYearsQuery(steps) ==
    LET ys == SelectSeq(steps, LAMBDA e : e.step = "years")
    IN  ys[Len(ys)]

\* C24: the bars of the year chart are in strictly ascending order of year,
\* so no year appears twice; and after a handler that ran a year query, for
\* every filter kind, the count of each bar is the number of records of that
\* year the query selects.
C24_YearSeriesAscending ==
    /\ [](\A i, j \in DOMAIN projectYearsChart :
             i < j => projectYearsChart[i][1] < projectYearsChart[j][1])
    /\ [][(\E i \in DOMAIN trace' : trace'[i].step = "years") =>
             \A i \in DOMAIN projectYearsChart' :
                projectYearsChart'[i][2] =
                   RowCount(Where(database'.recs, LAMBDA r :
                       /\ matches(lastYearsQuery(trace'), r)
                       /\ r.RSY_YEAR = projectYearsChart'[i][1]))]_vars

\* a district was selected whose records fall in two years, the later year
\* first in the table
C24_TwoYearsCharted ==
    /\ lastOp = "applyDistrictFilter"
    /\ currentDistrictFilter = "7"
    /\ lastYearsQuery(trace) = [step |-> "years", kind |-> "district", value |-> "7"]
    /\ projectYearsChart = << <<2023, 1>>, <<2024, 1002>> >>

\* C25, as stated: right after a category is selected on a snapshot with the
\* crosswalk, the awarded count is the number of records of the category
\* whose award date is set and the current count the number of those whose
\* award date is not set.
C25_ProjectTypeCountsSplitByAward ==
    [][lastOp' = "applyProjectTypeFilter" =>
          projectCounts' =
             [awarded |-> RowCount(Where(JoinByCategory(database',
                              currentProjectTypeFilter'), IsAwarded)),
              current |-> RowCount(Where(JoinByCategory(database',
                              currentProjectTypeFilter'), IsCurrent))]]_vars

\* what the three views show for each filter that is set among dF, cF, pF when
\* its queries are run on snapshot db
remainingData(db, dF, cF, pF) ==
    {viewsOf(updateChartsAndTable(db, f[1], f[2], f[3], cur)) :
        f \in {g \in {<<dF, null, null>>, <<null, cF, null>>, <<null, null, pF>>} :
                  g # <<null, null, null>>}}

\* C26, as stated: right after clearCountyFilter or clearDistrictFilter on a
\* loaded database, if a district, county or project-type filter is still
\* set, the counts, the year series and the rows on display are those of a
\* filter that is still set.
C26_ClearRespectsRemainingFilters ==
    [][( /\ lastOp' \in {"clearCountyFilter", "clearDistrictFilter"}
         /\ database'.loaded
         /\ <<currentDistrictFilter', currentCountyFilter',
              currentProjectTypeFilter'>> # <<null, null, null>> ) =>
            views' \in remainingData(database', currentDistrictFilter',
                                     currentCountyFilter', currentProjectTypeFilter')
      ]_vars

\* C27, as stated: every handler that reloads the views of a loaded
\* database, the end of the load included, issues exactly the counts query,
\* then the year query, then the row query, all three for one filter value.
C27_ThreeQueriesOnceInOrder ==
    [][(database'.loaded /\ trace' # <<>>) =>
          \E i \in DOMAIN trace' :
             queriesIn(trace') = threeQueries(trace'[i].kind, trace'[i].value)]_vars

\* C28, as stated: whatever a query of a reload returns, the other two are
\* run: a handler that issued one of the counts, year and row queries on
\* a loaded database, the end of the load included, issued all three.
C28_QueriesRunIndependently ==
    [][(database'.loaded /\ queriesIn(trace') # <<>>) =>
          {trace'[i].step : i \in DOMAIN trace'} \cap {"counts", "years", "rows"}
             = {"counts", "years", "rows"}]_vars

\* the handlers that change the filter state
filterOps == {"applyCountyFilter", "clearCountyFilter", "applyDistrictFilter",
              "clearDistrictFilter", "applyProjectTypeFilter",
              "clearProjectTypeFilter", "clearAllFilters"}

\* the place of a step in the order filter, titles, map, queries
stage(name) ==
    CASE name = "filter" -> 1
      [] name = "titles" -> 2
      [] name \in {"zoom", "restyle"} -> 3
      [] OTHER -> 4

\* C29: every handler that selects or clears a filter, clearAllFilters
\* included, runs to its end in one step, in which it first assigns the
\* filter, then recomputes the titles, then pans, zooms or restyles the map,
\* and then, the database being loaded, issues its queries; the titles it
\* leaves are those of the filter values it leaves.
C29_TransitionStepsInOrder ==
    [][lastOp' \in filterOps =>
          /\ Len(trace') >= 3
          /\ trace'[1].step = "filter"
          /\ trace'[2].step = "titles"
          /\ stage(trace'[3].step) = 3
          /\ \A i \in DOMAIN trace' : i > 2 => stage(trace'[i].step) > 2
          /\ \A i, j \in DOMAIN trace' :
                i < j => stage(trace'[i].step) <= stage(trace'[j].step)
          /\ database'.loaded => stage(trace'[Len(trace')].step) = 4
          /\ <<projectsPanelTitle', tableDataTitle'>> =
                titlesFor(currentDistrictFilter', currentCountyFilter',
                          currentProjectTypeFilter')]_vars

\* a category was selected while a county was selected: the title carries
\* both, and the handler went through its steps and the three queries
C29_TypeSelectedUnderCounty ==
    /\ lastOp = "applyProjectTypeFilter"
    /\ currentCountyFilter = "Fayette"
    /\ currentProjectTypeFilter = "bridge"
    /\ tableDataTitle = "Highway Projects Data in Fayette County (Bridge Construction)"
    /\ [i \in DOMAIN trace |-> trace[i].step] =
          <<"filter", "titles", "restyle", "counts", "years", "rows">>

\* the spellings zoomToCounty looks a county name up with, in its order
tiers(countyName) ==
    <<countyName, toUpperCase(countyName), toLowerCase(countyName),
      titleCase(countyName)>>

\* C30: a county selection fits the map to the group stored under the first
\* of the exact, upper-case, lower-case and title-case spellings of the name
\* that is a stored key; when none of the four is, to the group of the first
\* stored key, in storage order, that contains the name or is contained in
\* it, case-insensitively.  A group stored under the exact name is always
\* the one chosen.
C30_CountyLookupTierOrder ==
    [][lastOp' = "applyCountyFilter" =>
          LET name == currentCountyFilter'
              hit(t) == InSeq(tiers(name)[t], countyLayers)
          IN  /\ \A t \in 1..4 :
                    (hit(t) /\ \A u \in 1..(t - 1) : ~hit(u)) =>
                       mapView' = "county:" \o tiers(name)[t]
              /\ (\A t \in 1..4 : ~hit(t)) =>
                    \A i \in DOMAIN countyLayers :
                       ( /\ related(countyLayers[i], name)
                         /\ \A j \in 1..(i - 1) : ~related(countyLayers[j], name) ) =>
                          mapView' = "county:" \o countyLayers[i]
              /\ InSeq(name, countyLayers) => mapView' = "county:" \o name]_vars

\* "Fayette" was looked up among keys that hold, before it, a key containing
\* it and its upper-case spelling: the group of the exact key was chosen
C30_ExactKeyChosenOverVariants ==
    /\ lastOp = "applyCountyFilter"
    /\ currentCountyFilter = "Fayette"
    /\ countyLayers = <<"Lafayette", "FAYETTE", "Fayette">>
    /\ mapView = "county:Fayette"

RECURSIVE allIdentifiers(_)
\* the bridge identifiers of the records, record after record
allIdentifiers(records) ==
    IF records = <<>> THEN <<>>
    ELSE Head(records).Bridge_Identifier \o allIdentifiers(Tail(records))

\* b lists every non-empty identifier of ids once, in order of first occurrence
listsOnce(b, ids) ==
    /\ {b[i] : i \in DOMAIN b} = {ids[i] : i \in DOMAIN ids} \ {""}
    /\ \A i, j \in DOMAIN b : i # j => b[i] # b[j]
    /\ \A i, j \in DOMAIN b :
          i < j => (CHOOSE m \in DOMAIN ids : ids[m] = b[i] /\ \A n \in 1..(m - 1) : ids[n] # b[i])
                 < (CHOOSE m \in DOMAIN ids : ids[m] = b[j] /\ \A n \in 1..(m - 1) : ids[n] # b[j])

\* the summary s is that of the response data
summarises(s, data) ==
    /\ s.county = orNA(data.Route_Info[1].County_Name)
    /\ s.route = orNA(data.Route_Info[1].Route)
    /\ s.segments = Len(data.Route_Info)
    /\ listsOnce(s.bridges, allIdentifiers(data.Route_Info))

\* C31: for a response with at least one record, the popup, the text a click
\* on its copy button puts on the clipboard and the document a click on its
\* print button writes carry the county and route of the first record and the
\* same bridge list: every non-empty identifier of any record once, in order
\* of first occurrence.
C31_SummariesAgree ==
    /\ []((resultsPopup.shown /\ ~resultsPopup.noInfo) =>
             summarises(resultsPopup, resultsPopup.data))
    /\ [][(clipboard' # clipboard) =>
             /\ summarises(clipboard', resultsPopup.data)
             /\ clipboard'.bridges = resultsPopup.bridges]_vars
    /\ [][(printWindow' # printWindow) =>
             /\ summarises(printWindow', resultsPopup.data)
             /\ printWindow'.bridges = resultsPopup.bridges]_vars

\* a response of two records, the second repeating a bridge of the first and
\* naming no county, is shown, copied and printed
C31_TwoRecordsShownCopiedPrinted ==
    /\ resultsPopup.shown
    /\ Len(resultsPopup.data.Route_Info) = 2
    /\ resultsPopup.county = "Fayette"
    /\ resultsPopup.bridges = <<"034B00012N", "034B00077N">>
    /\ clipboard = [written |-> TRUE, county |-> "Fayette", route |-> "US-27",
                    bridges |-> <<"034B00012N", "034B00077N">>, segments |-> 2]
    /\ printWindow = clipboard

\* the value is there: neither absent, nor null, nor empty
present(v) == v \notin {undefined, null, ""}

\* C32, as stated: the instruction box offers the request, and a request is
\* in flight, only with a route unique id and two milepoints that are
\* present; a selected feature lacking one of them, absent or null, gets the
\* 'missing required route information' message.
C32_RequestsCarryAllThreeValues ==
    /\ instructionBox.state = "selected" =>
          /\ present(instructionBox.rtNeUnique)
          /\ present(instructionBox.bmp)
          /\ present(instructionBox.emp)
    /\ \A i \in DOMAIN apiCalls :
          /\ present(apiCalls[i].rtNeUnique)
          /\ present(apiCalls[i].bmp)
          /\ present(apiCalls[i].emp)

\* C33, as stated: while the route-lookup mode is off (no instruction box),
\* a click on a feature of a loaded project layer opens its popup, as it did
\* when the layer was added: letting the mode on and off again leaves the
\* popup handler in place and no selection handler.
C33_ClickOpensPopupOutsideMode ==
    instructionBox.state = "none" =>
        /\ currentProjectsLayer.loaded => currentProjectsLayer.click = "popup"
        /\ awardedProjectsLayer.loaded => awardedProjectsLayer.click = "popup"

\* C34, as stated: while a project-type filter is set, every feature of a
\* loaded project layer has opacity 0.8 if the crosswalk maps its work type
\* to the category and 0.3 otherwise, whether the layer was loaded before or
\* after the category was selected.
C34_LoadedLayersStyledForFilter ==
    currentProjectTypeFilter # null =>
        /\ currentProjectsLayer.loaded =>
              styledFor(currentProjectsLayer, CurrentFeatures, currentProjectTypeFilter)
        /\ awardedProjectsLayer.loaded =>
              styledFor(awardedProjectsLayer, AwardedFeatures, currentProjectTypeFilter)

\* C35, as stated: the district menu opened on a loaded database eventually
\* shows the districts of the database, whether or not it had been opened
\* before the load ended.
C35_OpenedMenuPresentsOptions ==
    (lastOp = "openDistrictMenu" /\ database.loaded)
        ~> (districtOptions = districtOptionsOf(database))

\* C36: a request gets at most one response, whatever the order of the open,
\* truncate, CSV and insert callbacks; and {success: true} is sent only when
\* the table has been truncated, the CSV file has been read to its end and
\* the insert of every row has reported success.
C36_AtMostOneResponse ==
    /\ Len(server.responses) <= 1
    /\ \A r \in DOMAIN server.responses :
          server.responses[r] = "success" =>
             /\ server.truncated
             /\ server.ended
             /\ \A i \in DOMAIN server.inserts : server.inserts[i] = "ok"

\* success was sent for a file of two rows, after both inserts
C36_SuccessAfterTwoInserts ==
    /\ server.phase = "done"
    /\ server.responses = <<"success">>
    /\ server.inserts = <<"ok", "ok">>
    /\ server.truncated

=============================================================================
